---- MODULE Spec2Model ----
(***************************************************************************)
(* Building-block slide generators: the keyword classifier                 *)
(* (analyze_requirements of BuildingBlockAgent, DirectBuildingBlock-       *)
(* Generator and UnifiedPowerPointGenerator) and the layout routines that  *)
(* place category blocks and the cross-cutting strip on a slide.           *)
(*                                                                         *)
(* Text is modelled by TLA+ strings; `in` is a real substring search and   *)
(* lower() a real per-character map.  Lengths are in hundredths of an inch *)
(* (2.8 in = 280), so that the layout arithmetic stays in the integers.    *)
(***************************************************************************)
EXTENDS Integers, Sequences, FiniteSets, TLC

VARIABLES
    requirements,   \* the requirements string handed to the classifiers
    analysis,       \* per classifier variant: its result on `requirements`
    previous,       \* `analysis` of the request before this one
    prevCall,       \* the layout call before the last one (or NoCall)
    lastCall,       \* the last layout call: routine, input, outcome, slide
    presentation,   \* the agent's self.presentation: NoAttribute or its slides
    generation,     \* the last generation call: its arguments and what it left
    files,          \* the working directory: file name -> slides of the file
    process,        \* the running program: its token, its position, its reports
    tool            \* the last tool operation called for the current request

classifyVars == <<requirements, analysis, previous>>
layoutVars == <<prevCall, lastCall, presentation>>
generateVars == <<generation, files>>
sessionVars == <<process, tool>>
vars == <<classifyVars, layoutVars, generateVars, sessionVars>>

-----------------------------------------------------------------------------
(* Strings *)

\* str.lower() on one character (ASCII letters of the inputs used here)
LowerChar(c) ==
    CASE c = "A" -> "a" [] c = "B" -> "b" [] c = "C" -> "c" [] c = "D" -> "d"
      [] c = "E" -> "e" [] c = "F" -> "f" [] c = "G" -> "g" [] c = "H" -> "h"
      [] c = "I" -> "i" [] c = "J" -> "j" [] c = "K" -> "k" [] c = "L" -> "l"
      [] c = "M" -> "m" [] c = "N" -> "n" [] c = "O" -> "o" [] c = "P" -> "p"
      [] c = "Q" -> "q" [] c = "R" -> "r" [] c = "S" -> "s" [] c = "T" -> "t"
      [] c = "U" -> "u" [] c = "V" -> "v" [] c = "W" -> "w" [] c = "X" -> "x"
      [] c = "Y" -> "y" [] c = "Z" -> "z" [] OTHER -> c

RECURSIVE Lower(_)
\* requirements.lower(): every character mapped, the order kept
Lower(s) ==
    IF Len(s) = 0 THEN ""
    ELSE IF Len(s) = 1 THEN LowerChar(s)
    ELSE LET half == Len(s) \div 2 IN
         Lower(SubSeq(s, 1, half)) \o Lower(SubSeq(s, half + 1, Len(s)))

\* `term in text` on Python strings: substring search
Contains(text, term) ==
    \E i \in 1..(Len(text) - Len(term) + 1) :
        SubSeq(text, i, i + Len(term) - 1) = term

\* any(term in text for term in terms)
AnyIn(terms, text) == \E t \in terms : Contains(text, t)

\* filename.endswith(suffix)
EndsWith(s, suffix) ==
    /\ Len(s) >= Len(suffix)
    /\ SubSeq(s, Len(s) - Len(suffix) + 1, Len(s)) = suffix

-----------------------------------------------------------------------------
(* Sequences *)

\* the elements of a sequence
Range(s) == {s[i] : i \in 1..Len(s)}

\* position of the first occurrence of x in s (0 when absent)
FirstIndex(s, x) ==
    IF x \in Range(s) THEN CHOOSE i \in 1..Len(s) :
                               s[i] = x /\ \A j \in 1..(i - 1) : s[j] # x
    ELSE 0

\* position of the last occurrence of x in s (0 when absent)
LastIndex(s, x) ==
    IF x \in Range(s) THEN CHOOSE i \in 1..Len(s) :
                               s[i] = x /\ \A j \in (i + 1)..Len(s) : s[j] # x
    ELSE 0

NoDuplicates(s) == \A i, j \in 1..Len(s) : s[i] = s[j] => i = j

\* list(dict.fromkeys(s)) with the wrong occurrence kept: the last one wins
DictFromKeysLastWins(s) ==
    LET RECURSIVE From(_)
        From(i) == IF i > Len(s) THEN <<>>
                   ELSE (IF LastIndex(s, s[i]) = i THEN <<s[i]>> ELSE <<>>)
                        \o From(i + 1)
    IN  From(1)

\* the list as appended, duplicates kept
DictFromKeysKeepsAll(s) == s

\* list(dict.fromkeys(s)): duplicates removed, first occurrence kept
DictFromKeys(s) ==
    LET RECURSIVE From(_)
        From(i) == IF i > Len(s) THEN <<>>
                   ELSE (IF FirstIndex(s, s[i]) = i THEN <<s[i]>> ELSE <<>>)
                        \o From(i + 1)
    IN  From(1)

\* <<x>> when the check fires, nothing otherwise (an `if ...: append(x)`)
AppendIf(cond, x) == IF cond THEN <<x>> ELSE <<>>

-----------------------------------------------------------------------------
(* The classifiers *)

\* BuildingBlockAgent.analyze_requirements: the keyword lists
ai_keywords ==
    {"ai", "analytics", "machine learning", "ml", "data science", "openai",
     "chatbot", "intelligent", "prediction"}

\* the web keywords without "portal"
web_keywords_without_portal ==
    {"web", "website", "api", "frontend", "backend", "application", "app"}

web_keywords ==
    {"web", "website", "portal", "api", "frontend", "backend", "application", "app"}

data_keywords ==
    {"database", "data", "storage", "sql", "cosmos", "warehouse", "lake"}

integration_keywords ==
    {"integration", "api", "messaging", "event", "workflow", "automation"}

security_keywords ==
    {"security", "authentication", "authorization", "identity", "firewall",
     "compliance"}

\* the agent's checks with infrastructure added only as a fallback, when no
\* other category was found
AgentAppendedInfrastructureFallback(req) ==
    LET requirements_lower == Lower(req)
        found ==
               AppendIf(\/ Contains(requirements_lower, "user experience")
                        \/ Contains(requirements_lower, "ux")
                        \/ Contains(requirements_lower, "frontend"), "web_application")
            \o AppendIf(\/ Contains(requirements_lower, "application layer")
                        \/ Contains(requirements_lower, "app layer"), "web_application")
            \o (IF \/ Contains(requirements_lower, "data and intelligence")
                   \/ Contains(requirements_lower, "data intelligence")
                   \/ Contains(requirements_lower, "analytics")
                THEN <<"ai_analytics", "data_platform">> ELSE <<>>)
            \o AppendIf(Contains(requirements_lower, "integration layer"), "integration")
            \o AppendIf(AnyIn(ai_keywords, requirements_lower), "ai_analytics")
            \o AppendIf(AnyIn(web_keywords, requirements_lower), "web_application")
            \o AppendIf(AnyIn(data_keywords, requirements_lower), "data_platform")
            \o AppendIf(AnyIn(integration_keywords, requirements_lower), "integration")
            \o AppendIf(AnyIn(security_keywords, requirements_lower), "security")
    IN  IF found = <<>> THEN <<"infrastructure">> ELSE found

\* BuildingBlockAgent.analyze_requirements: needed_categories as appended,
\* before the duplicates are removed
AgentAppended(req) ==
    LET requirements_lower == Lower(req) IN
       AppendIf(\/ Contains(requirements_lower, "user experience")
                \/ Contains(requirements_lower, "ux")
                \/ Contains(requirements_lower, "frontend"), "web_application")
    \o AppendIf(\/ Contains(requirements_lower, "application layer")
                \/ Contains(requirements_lower, "app layer"), "web_application")
    \o (IF \/ Contains(requirements_lower, "data and intelligence")
           \/ Contains(requirements_lower, "data intelligence")
           \/ Contains(requirements_lower, "analytics")
        THEN <<"ai_analytics", "data_platform">> ELSE <<>>)
    \o AppendIf(Contains(requirements_lower, "integration layer"), "integration")
    \o AppendIf(AnyIn(ai_keywords, requirements_lower), "ai_analytics")
    \o AppendIf(AnyIn(web_keywords, requirements_lower), "web_application")
    \o AppendIf(AnyIn(data_keywords, requirements_lower), "data_platform")
    \o AppendIf(AnyIn(integration_keywords, requirements_lower), "integration")
    \o AppendIf(AnyIn(security_keywords, requirements_lower), "security")
    \o <<"infrastructure">>

\* BuildingBlockAgent.analyze_requirements: needed_categories at the end
AgentCategories(req) == DictFromKeys(AgentAppended(req))

\* category.replace('_', ' ').title()
Title(category) ==
    CASE category = "web_application" -> "Web Application"
      [] category = "ai_analytics"    -> "Ai Analytics"
      [] category = "data_platform"   -> "Data Platform"
      [] category = "integration"     -> "Integration"
      [] category = "security"        -> "Security"
      [] category = "infrastructure"  -> "Infrastructure"
      [] OTHER                        -> category

\* the direct checks followed by the agent's unconditional infrastructure
DirectAppendedWithInfrastructure(req) ==
    LET req_lower == Lower(req) IN
       AppendIf(AnyIn({"user experience", "ux", "frontend", "application layer",
                       "app layer", "web", "portal"}, req_lower), "web_application")
    \o (IF AnyIn({"data and intelligence", "data intelligence", "analytics", "ai",
                  "machine learning"}, req_lower)
        THEN <<"ai_analytics">> \o AppendIf(Contains(req_lower, "data"), "data_platform")
        ELSE <<>>)
    \o AppendIf(AnyIn({"integration layer", "integration", "api"}, req_lower),
                "integration")
    \o <<"infrastructure">>

\* the direct classifier with the implied data_platform put before ai_analytics
DirectAppendedDataFirst(req) ==
    LET req_lower == Lower(req) IN
       AppendIf(AnyIn({"user experience", "ux", "frontend", "application layer",
                       "app layer", "web", "portal"}, req_lower), "web_application")
    \o (IF AnyIn({"data and intelligence", "data intelligence", "analytics", "ai",
                  "machine learning"}, req_lower)
        THEN AppendIf(Contains(req_lower, "data"), "data_platform") \o <<"ai_analytics">>
        ELSE <<>>)
    \o AppendIf(AnyIn({"integration layer", "integration", "api"}, req_lower),
                "integration")

\* the direct classifier with data_platform implied by the analytics terms
\* alone, whether or not "data" is in the input
DirectAppendedDataUnconditional(req) ==
    LET req_lower == Lower(req) IN
       AppendIf(AnyIn({"user experience", "ux", "frontend", "application layer",
                       "app layer", "web", "portal"}, req_lower), "web_application")
    \o (IF AnyIn({"data and intelligence", "data intelligence", "analytics", "ai",
                  "machine learning"}, req_lower)
        THEN <<"ai_analytics", "data_platform">>
        ELSE <<>>)
    \o AppendIf(AnyIn({"integration layer", "integration", "api"}, req_lower),
                "integration")

\* DirectBuildingBlockGenerator.analyze_requirements: categories as appended
DirectAppended(req) ==
    LET req_lower == Lower(req) IN
       AppendIf(AnyIn({"user experience", "ux", "frontend", "application layer",
                       "app layer", "web", "portal"}, req_lower), "web_application")
    \o (IF AnyIn({"data and intelligence", "data intelligence", "analytics", "ai",
                  "machine learning"}, req_lower)
        THEN <<"ai_analytics">> \o AppendIf(Contains(req_lower, "data"), "data_platform")
        ELSE <<>>)
    \o AppendIf(AnyIn({"integration layer", "integration", "api"}, req_lower),
                "integration")

\* DirectBuildingBlockGenerator.analyze_requirements
DirectCategories(req) == DictFromKeys(DirectAppended(req))

\* a classifier with hidden state: from its second call on it appends the
\* categories in the opposite order
UnifiedAppendedCountingCalls(req) ==
    LET found == DirectAppended(req) IN
    IF previous["unified"].called
    THEN [i \in 1..Len(found) |-> found[Len(found) + 1 - i]]
    ELSE found

\* a unified classifier whose web check lacks the term "portal"
UnifiedAppendedWithoutPortal(req) ==
    LET req_lower == Lower(req) IN
       AppendIf(AnyIn({"user experience", "ux", "frontend", "application layer",
                       "app layer", "web"}, req_lower), "web_application")
    \o (IF AnyIn({"data and intelligence", "data intelligence", "analytics", "ai",
                  "machine learning"}, req_lower)
        THEN <<"ai_analytics">> \o AppendIf(Contains(req_lower, "data"), "data_platform")
        ELSE <<>>)
    \o AppendIf(AnyIn({"integration layer", "integration", "api"}, req_lower),
                "integration")

\* UnifiedPowerPointGenerator.analyze_requirements: categories as appended
UnifiedAppended(req) ==
    LET req_lower == Lower(req) IN
       AppendIf(AnyIn({"user experience", "ux", "frontend", "application layer",
                       "app layer", "web", "portal"}, req_lower), "web_application")
    \o (IF AnyIn({"data and intelligence", "data intelligence", "analytics", "ai",
                  "machine learning"}, req_lower)
        THEN <<"ai_analytics">> \o AppendIf(Contains(req_lower, "data"), "data_platform")
        ELSE <<>>)
    \o AppendIf(AnyIn({"integration layer", "integration", "api"}, req_lower),
                "integration")

\* UnifiedPowerPointGenerator.analyze_requirements
UnifiedCategories(req) == DictFromKeys(UnifiedAppended(req))

-----------------------------------------------------------------------------
(* Inputs of the classifiers *)

\* longest requirements string, in words of the vocabulary
MaxWords == 2

\* words a requirements string is made of: keywords of every check, words
\* that hide a keyword ("email" holds "ai"), upper case, and no keyword at all
Vocabulary ==
    {"web", "portal", "database", "analytics", "AI-powered", "data",
     "intelligence", "integration", "layer", "application", "User experience",
     "frontend", "api", "security", "email", "hello", "  ", "ux", "app",
     "machine learning"}

\* the requirements strings the sources and their documentation name, and
\* one that meets every check of the agent
Scenarios ==
    {"web api with data analytics and security",
     "web portal with a database",
     "AI-powered customer service with analytics",
     "1. User experience layer, 2. Application Layer, 3. Data and intelligence layer, 4. Integration Layer",
     "Healthcare management system with patient portal and data analytics",
     "E-commerce platform with payment processing and inventory management",
     "Modern web application with microservices architecture and database",
     "Financial services platform with fraud detection and compliance"}

RECURSIVE Sentences(_)
\* the strings of at most n vocabulary words, separated by one space
Sentences(n) ==
    IF n = 0 THEN {""}
    ELSE LET shorter == Sentences(n - 1) IN
         shorter \cup {IF s = "" THEN w ELSE s \o " " \o w :
                          s \in shorter, w \in Vocabulary}

Requirements == Sentences(MaxWords) \cup Scenarios

-----------------------------------------------------------------------------
(* State of the classifier runs *)

Variants == {"agent", "direct", "unified"}

NotCalled ==
    [called |-> FALSE, requirements |-> "", appended |-> <<>>, categories |-> <<>>,
     bullets |-> <<>>]

\* no layout routine has been called
NoCall == [routine |-> "none", categories |-> <<>>, returned |-> ""]

\* hasattr(self, 'presentation') is false
NoAttribute == "no attribute"

\* the result text of the agent lists one bullet per needed category
Bullets(categories) == [i \in 1..Len(categories) |-> Title(categories[i])]

\* what a classifier call leaves: the string it was called on, the categories
\* as appended and as returned
Result(appended, categories, bullets) ==
    [called |-> TRUE, requirements |-> requirements, appended |-> appended,
     categories |-> categories, bullets |-> bullets]

\* BuildingBlockAgent.analyze_requirements(requirements)
AgentAnalyze ==
    /\ ~analysis["agent"].called
    /\ LET needed_categories == AgentCategories(requirements) IN
       analysis' = [analysis EXCEPT !["agent"] =
           Result(AgentAppended(requirements), needed_categories,
                  Bullets(needed_categories))]
    /\ UNCHANGED <<requirements, previous, layoutVars, generateVars, sessionVars>>

\* DirectBuildingBlockGenerator.analyze_requirements(requirements)
DirectAnalyze ==
    /\ ~analysis["direct"].called
    /\ analysis' = [analysis EXCEPT !["direct"] =
           Result(DirectAppended(requirements), DirectCategories(requirements), <<>>)]
    /\ UNCHANGED <<requirements, previous, layoutVars, generateVars, sessionVars>>

\* UnifiedPowerPointGenerator.analyze_requirements(requirements)
UnifiedAnalyze ==
    /\ ~analysis["unified"].called
    /\ analysis' = [analysis EXCEPT !["unified"] =
           Result(UnifiedAppended(requirements), UnifiedCategories(requirements), <<>>)]
    /\ UNCHANGED <<requirements, previous, layoutVars, generateVars, sessionVars>>

\* no layout routine has run and the agent has no presentation attribute
LayoutIdle ==
    /\ prevCall = NoCall
    /\ lastCall = NoCall
    /\ presentation = NoAttribute

\* no generation call has been made and the working directory is empty
NoGeneration == [generator |-> "none"]
GenerateIdle ==
    /\ generation = NoGeneration
    /\ files = <<>>

\* no program is running and no tool operation has been called
NoProcess == [program |-> "none"]
NoTool == [operation |-> "none"]
SessionIdle ==
    /\ process = NoProcess
    /\ tool = NoTool

InitClassify ==
    /\ requirements \in Requirements
    /\ analysis = [v \in Variants |-> NotCalled]
    /\ previous = [v \in Variants |-> NotCalled]
    /\ LayoutIdle
    /\ GenerateIdle
    /\ SessionIdle

NextClassify == AgentAnalyze \/ DirectAnalyze \/ UnifiedAnalyze

\* every classifier variant applied once to every bounded requirements string
SpecClassify == InitClassify /\ [][NextClassify]_vars

\* the requirements strings of two requests in a row
RequestSample == Scenarios \cup Vocabulary

\* the next request arrives once every variant has answered this one;
\* `previous` holds the answers to one earlier request, the last one or one
\* before it
NextRequest ==
    /\ \A v \in Variants : analysis[v].called
    /\ previous' \in {analysis} \cup {p \in {previous} : \A v \in Variants : p[v].called}
    /\ requirements' \in RequestSample
    /\ analysis' = [v \in Variants |-> NotCalled]
    /\ UNCHANGED <<layoutVars, generateVars, sessionVars>>

InitRequests ==
    /\ requirements \in RequestSample
    /\ analysis = [v \in Variants |-> NotCalled]
    /\ previous = [v \in Variants |-> NotCalled]
    /\ LayoutIdle
    /\ GenerateIdle
    /\ SessionIdle

NextRequests == AgentAnalyze \/ DirectAnalyze \/ UnifiedAnalyze \/ NextRequest

\* every classifier variant applied to one request after another
SpecRequests == InitRequests /\ [][NextRequests]_vars

-----------------------------------------------------------------------------
(* The layout routines.  Lengths are hundredths of an inch. *)

\* keys of BuildingBlockAgent.service_recommendations, in dict order
AgentCatalog ==
    <<"ai_analytics", "web_application", "data_platform", "integration",
      "security", "infrastructure">>

\* keys of conceptual_blocks and of service_recommendations of the direct and
\* the unified generator (the same four), in dict order
DirectCatalog ==
    <<"web_application", "ai_analytics", "data_platform", "integration">>

\* cross_cutting_services / conceptual_cross_cutting /
\* azure_cross_cutting_services: seven entries each
azure_cross_cutting_services ==
    <<"Azure Policy and Compliance", "Azure Firewall and DDoS",
      "Microsoft Sentinel and Defender", "Encryption", "Azure Monitor",
      "Azure Backup and BCDR", "Microsoft Entra ID">>

conceptual_cross_cutting ==
    <<"Security & Compliance", "Network Security", "Monitoring & Defense",
      "Data Encryption", "System Monitoring", "Backup & Recovery",
      "Identity Management">>

spacing_x == 30
spacing_y == 40
start_x == 50
agent_start_y == 180
direct_start_y == 130
strip_margin == 30
box_width == 125
box_height == 60
start_x_cross == 50
spacing_x_cross == 5
req_margin == 20

\* BuildingBlockAgent.create_building_block_slide: the three size tiers
AgentTier(num_categories) ==
    IF num_categories <= 3
    THEN [blocks_per_row |-> num_categories, block_width |-> 280, block_height |-> 200]
    ELSE IF num_categories <= 6
    THEN [blocks_per_row |-> 3, block_width |-> 250, block_height |-> 180]
    ELSE [blocks_per_row |-> 3, block_width |-> 220, block_height |-> 150]

\* create_conceptual_slide / create_azure_specific_slide of the direct and the
\* unified generator: two size tiers
DirectTier(num_categories) ==
    IF num_categories <= 3
    THEN [blocks_per_row |-> num_categories, block_width |-> 280, block_height |-> 220]
    ELSE [blocks_per_row |-> 3, block_width |-> 250, block_height |-> 200]

\* a grid whose columns leave no gap between blocks
BlockAbutting(category, row, col, tier, start_y) ==
    [category |-> category,
     x_pos    |-> start_x + col * tier.block_width,
     y_pos    |-> start_y + row * (tier.block_height + spacing_y),
     width    |-> tier.block_width,
     height   |-> tier.block_height]

\* one rounded rectangle of a category
Block(category, row, col, tier, start_y) ==
    [category |-> category,
     x_pos    |-> start_x + col * (tier.block_width + spacing_x),
     y_pos    |-> start_y + row * (tier.block_height + spacing_y),
     width    |-> tier.block_width,
     height   |-> tier.block_height]

\* the agent's cell counter with the row break one block late
NextCellBreaksLate(row, col, blocks_per_row) ==
    IF col + 1 > blocks_per_row THEN [row |-> row + 1, col |-> 0]
    ELSE [row |-> row, col |-> col + 1]

\* the agent's "move to next position": col += 1, and a new row when full
NextCell(row, col, blocks_per_row) ==
    IF col + 1 >= blocks_per_row THEN [row |-> row + 1, col |-> 0]
    ELSE [row |-> row, col |-> col + 1]

RECURSIVE AgentBlocksByIndex(_, _, _, _, _)
\* the agent's block loop with the cell counter advanced for every entry of
\* the list, drawn or not
AgentBlocksByIndex(categories, i, row, col, tier) ==
    IF i > Len(categories) THEN <<>>
    ELSE LET next == NextCell(row, col, tier.blocks_per_row) IN
         (IF categories[i] \in Range(AgentCatalog)
          THEN <<Block(categories[i], row, col, tier, agent_start_y)>>
          ELSE <<>>)
         \o AgentBlocksByIndex(categories, i + 1, next.row, next.col, tier)

RECURSIVE AgentBlocks(_, _, _, _, _)
\* the agent's block loop from index i on: only catalog categories draw, and
\* only they advance the cell counter
AgentBlocks(categories, i, row, col, tier) ==
    IF i > Len(categories) THEN <<>>
    ELSE IF categories[i] \in Range(AgentCatalog)
    THEN LET next == NextCell(row, col, tier.blocks_per_row) IN
         <<Block(categories[i], row, col, tier, agent_start_y)>>
         \o AgentBlocks(categories, i + 1, next.row, next.col, tier)
    ELSE AgentBlocks(categories, i + 1, row, col, tier)

RECURSIVE DirectBlocks(_, _, _)
\* the block loop of the direct and the unified generator from index i on:
\* the cell is that of the index, a category outside the catalog draws nothing
DirectBlocks(categories, i, tier) ==
    IF i > Len(categories) THEN <<>>
    ELSE (IF categories[i] \in Range(DirectCatalog)
          THEN <<Block(categories[i], (i - 1) \div tier.blocks_per_row,
                       (i - 1) % tier.blocks_per_row, tier, direct_start_y)>>
          ELSE <<>>)
         \o DirectBlocks(categories, i + 1, tier)

\* security_y_pos; the caller has checked blocks_per_row # 0
SecurityYPos(num_categories, tier, start_y) ==
    start_y
    + ((num_categories - 1) \div tier.blocks_per_row + 1)
      * (tier.block_height + spacing_y)
    + strip_margin

\* the cross-cutting boxes, one per service, left to right
CrossCuttingBoxes(services, security_y_pos) ==
    [i \in 1..Len(services) |->
        [label  |-> services[i],
         x_pos  |-> start_x_cross + (i - 1) * (box_width + spacing_x_cross),
         y_pos  |-> security_y_pos,
         width  |-> box_width,
         height |-> box_height]]

\* a slide: its title, category blocks, cross-cutting boxes, the y of the
\* strip header and of the requirements text boxes (empty when not added)
Slide(title, blocks, boxes, header, texts) ==
    [title |-> title, blocks |-> blocks, boxes |-> boxes, header |-> header,
     texts |-> texts]

\* what a layout routine leaves: the exception raised in it ("none" when it
\* ran to its end), the slide as far as it got, and its locals
Outcome(error, slide, num_categories, tier, security_y_pos) ==
    [error |-> error, slide |-> slide, num_categories |-> num_categories,
     blocks_per_row |-> tier.blocks_per_row, block_width |-> tier.block_width,
     block_height |-> tier.block_height, security_y_pos |-> security_y_pos]

\* num_categories of the agent: the entries of the list that are in its catalog
AgentNumCategories(categories) ==
    Cardinality({i \in 1..Len(categories) : categories[i] \in Range(AgentCatalog)})

\* BuildingBlockAgent.create_building_block_slide, the body of its try block
AgentLayout(title, req, categories) ==
    LET num_categories == AgentNumCategories(categories)
        tier == AgentTier(num_categories)
        blocks == AgentBlocks(categories, 1, 0, 0, tier)
    IN  IF tier.blocks_per_row = 0
        THEN Outcome("ZeroDivisionError", Slide(title, blocks, <<>>, <<>>, <<>>),
                     num_categories, tier, <<>>)
        ELSE LET security_y_pos == SecurityYPos(num_categories, tier, agent_start_y) IN
             Outcome("none",
                     Slide(title, blocks,
                           CrossCuttingBoxes(azure_cross_cutting_services, security_y_pos),
                           <<security_y_pos - 30>>,
                           <<security_y_pos + box_height + req_margin>>),
                     num_categories, tier, <<security_y_pos>>)

\* create_conceptual_slide of the direct and of the unified generator
ConceptualLayout(categories) ==
    LET num_categories == Len(categories)
        tier == DirectTier(num_categories)
        title == "Conceptual Architecture Building Blocks"
        blocks == DirectBlocks(categories, 1, tier)
    IN  IF tier.blocks_per_row = 0
        THEN Outcome("ZeroDivisionError", Slide(title, blocks, <<>>, <<>>, <<>>),
                     num_categories, tier, <<>>)
        ELSE LET security_y_pos == SecurityYPos(num_categories, tier, direct_start_y) IN
             Outcome("none",
                     Slide(title, blocks,
                           CrossCuttingBoxes(conceptual_cross_cutting, security_y_pos),
                           <<security_y_pos - 30>>, <<>>),
                     num_categories, tier, <<security_y_pos>>)

\* UnifiedPowerPointGenerator.create_azure_specific_slide (no icon folder)
UnifiedAzureLayout(categories) ==
    LET num_categories == Len(categories)
        tier == DirectTier(num_categories)
        title == "Azure Solution Architecture Building Blocks"
        blocks == DirectBlocks(categories, 1, tier)
    IN  IF tier.blocks_per_row = 0
        THEN Outcome("ZeroDivisionError", Slide(title, blocks, <<>>, <<>>, <<>>),
                     num_categories, tier, <<>>)
        ELSE LET security_y_pos == SecurityYPos(num_categories, tier, direct_start_y) IN
             Outcome("none",
                     Slide(title, blocks,
                           CrossCuttingBoxes(azure_cross_cutting_services, security_y_pos),
                           <<security_y_pos - 30>>, <<>>),
                     num_categories, tier, <<security_y_pos>>)

\* DirectBuildingBlockGenerator.create_azure_specific_slide: the service loop
\* of the first catalog category reads the undefined name `shape`, and the
\* first cross-cutting box the undefined name `service_shape`
DirectAzureLayout(categories) ==
    LET num_categories == Len(categories)
        tier == DirectTier(num_categories)
        title == "Azure Solution Architecture Building Blocks"
        blocks == DirectBlocks(categories, 1, tier)
    IN  IF blocks # <<>>
        THEN Outcome("NameError", Slide(title, <<blocks[1]>>, <<>>, <<>>, <<>>),
                     num_categories, tier, <<>>)
        ELSE IF tier.blocks_per_row = 0
        THEN Outcome("ZeroDivisionError", Slide(title, <<>>, <<>>, <<>>, <<>>),
                     num_categories, tier, <<>>)
        ELSE LET security_y_pos == SecurityYPos(num_categories, tier, direct_start_y) IN
             Outcome("NameError",
                     Slide(title, <<>>,
                           <<CrossCuttingBoxes(azure_cross_cutting_services,
                                               security_y_pos)[1]>>,
                           <<>>, <<>>),
                     num_categories, tier, <<security_y_pos>>)

-----------------------------------------------------------------------------
(* Layout runs: one routine called on one category list, then on another *)

\* longest category list handed to a layout routine
MaxCategories == 7

\* most entries of a category list that are in no catalog
MaxUnknown == 1

\* a category id that is in no catalog
UnknownCategory == "blockchain"

\* the categories of `catalog` in reverse order
Backward(catalog) == [i \in 1..Len(catalog) |-> catalog[Len(catalog) + 1 - i]]

\* the list of length n that walks through `catalog` in its order, again from
\* its start when it is exhausted
Walk(catalog, n) == [i \in 1..n |-> catalog[((i - 1) % Len(catalog)) + 1]]

\* the category lists of length 0..MaxCategories handed to a routine with
\* this catalog: the walk through the catalog with at most MaxUnknown entries
\* replaced by the unknown id, the backward walk, and one category repeated
CategoryLists(catalog) ==
    {[i \in 1..n |-> IF i \in unknown THEN UnknownCategory
                     ELSE Walk(catalog, n)[i]] :
        n \in 0..MaxCategories,
        unknown \in {u \in SUBSET (1..MaxCategories) : Cardinality(u) <= MaxUnknown}}
    \cup {Walk(Backward(catalog), n) : n \in 0..MaxCategories}
    \cup {[i \in 1..n |-> catalog[1]] : n \in 0..MaxCategories}

SlideTitle == "Solution Architecture Building Blocks"

\* a finished call of a layout routine
Call(routine, categories, returned, outcome) ==
    [routine |-> routine, categories |-> categories, returned |-> returned]
    @@ outcome

\* a behaviour calls one routine, at most twice
Ready(routine) ==
    /\ prevCall = NoCall
    /\ lastCall.routine \in {"none", routine}

\* BuildingBlockAgent.create_building_block_slide(title, requirements, categories)
AgentCreateSlide ==
    /\ Ready("agent.create_building_block_slide")
    /\ \E categories \in CategoryLists(AgentCatalog) :
         LET outcome == AgentLayout(SlideTitle, requirements, categories) IN
         /\ presentation' =
                (IF presentation = NoAttribute THEN <<>> ELSE presentation)
                \o <<outcome.slide>>
         /\ lastCall' =
                Call("agent.create_building_block_slide", categories,
                     IF outcome.error = "none"
                     THEN "Successfully created building block slide"
                     ELSE "Error creating building block slide", outcome)
    /\ prevCall' = lastCall
    /\ UNCHANGED <<classifyVars, generateVars, sessionVars>>

\* a call of a routine of the direct or unified generator, on a new
\* presentation: it returns (security_y_pos, box_height) or lets its
\* exception escape
RoutineCall(routine, categories, outcome) ==
    Call(routine, categories,
         IF outcome.error = "none" THEN "security_y_pos, box_height" ELSE "raised",
         outcome)

\* DirectBuildingBlockGenerator.create_conceptual_slide(prs, categories, requirements)
DirectConceptualSlide ==
    /\ Ready("direct.create_conceptual_slide")
    /\ \E categories \in CategoryLists(DirectCatalog) :
           lastCall' = RoutineCall("direct.create_conceptual_slide", categories, ConceptualLayout(categories))
    /\ prevCall' = lastCall
    /\ UNCHANGED <<presentation, classifyVars, generateVars, sessionVars>>

\* DirectBuildingBlockGenerator.create_azure_specific_slide(prs, categories, requirements)
DirectAzureSlide ==
    /\ Ready("direct.create_azure_specific_slide")
    /\ \E categories \in CategoryLists(DirectCatalog) :
           lastCall' = RoutineCall("direct.create_azure_specific_slide", categories, DirectAzureLayout(categories))
    /\ prevCall' = lastCall
    /\ UNCHANGED <<presentation, classifyVars, generateVars, sessionVars>>

\* UnifiedPowerPointGenerator.create_conceptual_slide(prs, categories, requirements)
UnifiedConceptualSlide ==
    /\ Ready("unified.create_conceptual_slide")
    /\ \E categories \in CategoryLists(DirectCatalog) :
           lastCall' = RoutineCall("unified.create_conceptual_slide", categories, ConceptualLayout(categories))
    /\ prevCall' = lastCall
    /\ UNCHANGED <<presentation, classifyVars, generateVars, sessionVars>>

\* UnifiedPowerPointGenerator.create_azure_specific_slide(prs, categories, requirements)
UnifiedAzureSlide ==
    /\ Ready("unified.create_azure_specific_slide")
    /\ \E categories \in CategoryLists(DirectCatalog) :
           lastCall' = RoutineCall("unified.create_azure_specific_slide", categories, UnifiedAzureLayout(categories))
    /\ prevCall' = lastCall
    /\ UNCHANGED <<presentation, classifyVars, generateVars, sessionVars>>

InitLayout ==
    /\ requirements = "web portal with a database"
    /\ analysis = [v \in Variants |-> NotCalled]
    /\ previous = [v \in Variants |-> NotCalled]
    /\ LayoutIdle
    /\ GenerateIdle
    /\ SessionIdle

NextLayout ==
    \/ AgentCreateSlide
    \/ DirectConceptualSlide
    \/ DirectAzureSlide
    \/ UnifiedConceptualSlide
    \/ UnifiedAzureSlide

\* every layout routine applied to every bounded category list, twice
SpecLayout == InitLayout /\ [][NextLayout]_vars

-----------------------------------------------------------------------------
(* Generation calls: classify, lay out the slides, save the file *)

\* most files the working directory comes to hold
MaxFiles == 1

\* requirements strings of a generation call
GenerationRequirements ==
    {"", "hello", "email", "web", "data analytics", "web portal with a database",
     "AI-powered customer service with analytics",
     "1. User experience layer, 2. Application Layer, 3. Data and intelligence layer, 4. Integration Layer"}

\* the filename argument; "" stands for None and for the empty string, which
\* `if not filename` treats alike
FileNames == {"", "deck", "deck.pptx", "plan.ppt"}

\* the slide_type argument of the unified generator
SlideTypes == {"conceptual", "azure", "both", "summary"}

\* a file name that gets the extension whether or not it has it
FileNameAlwaysAppends(filename) ==
    IF filename = "" THEN "Building_Blocks_Architecture.pptx"
    ELSE filename \o ".pptx"

\* the name of the file a generation call saves
FileName(filename) ==
    IF filename = "" THEN "Building_Blocks_Architecture.pptx"
    ELSE IF EndsWith(filename, ".pptx") THEN filename
    ELSE filename \o ".pptx"

\* a requirements text box laid over the cross-cutting strip
WithRequirementsOnTheStrip(slide, y) ==
    [slide EXCEPT !.texts = <<y - box_height - req_margin>>]

\* the requirements text box added to a slide at height y
WithRequirements(slide, y) == [slide EXCEPT !.texts = <<y>>]

\* what a generation call leaves: its arguments, whether the directory could
\* be written, the categories, the exception of each layout routine it ran
\* ("none" when the routine returned), the slides of its presentation, the
\* start of the status string it returned (the details after it are left
\* out) and the file it wrote ("" when none)
Generation(generator, req, filename, slide_type, writable, categories, errors, slides, returned, saved) ==
    [generator |-> generator, requirements |-> req, filename |-> filename,
     slide_type |-> slide_type, writable |-> writable,
     categories |-> categories, errors |-> errors,
     slides |-> slides, returned |-> returned, saved |-> saved]

\* prs.save(filepath): the directory after the file is written
Save(name, slides) ==
    [n \in DOMAIN files \cup {name} |-> IF n = name THEN slides ELSE files[n]]

\* DirectBuildingBlockGenerator.create_building_block_slide(requirements, filename)
\* on the categories its classifier returned; `writable` is whether prs.save succeeds
DirectGeneration(req, filename, writable, categories) ==
    LET conceptual == ConceptualLayout(categories)
        azure == DirectAzureLayout(categories)
        failed == "Error creating slide"
    IN  IF conceptual.error # "none"
        THEN Generation("direct", req, filename, "both", writable, categories,
                        <<conceptual.error>>, <<conceptual.slide>>, failed, "")
        ELSE IF azure.error # "none"
        THEN Generation("direct", req, filename, "both", writable, categories,
                        <<"none", azure.error>>, <<conceptual.slide, azure.slide>>,
                        failed, "")
        ELSE LET req_y_pos == azure.security_y_pos[1] + box_height + req_margin
                 slides == <<WithRequirements(conceptual.slide, req_y_pos),
                             WithRequirements(azure.slide, req_y_pos)>>
             IN  IF writable
                 THEN Generation("direct", req, filename, "both", writable, categories,
                                 <<"none", "none">>, slides, "Successfully created",
                                 FileName(filename))
                 ELSE Generation("direct", req, filename, "both", writable, categories,
                                 <<"none", "none">>, slides, failed, "")

\* UnifiedPowerPointGenerator.create_building_block_presentation(requirements,
\* filename, slide_type) on the categories its classifier returned; `writable`
\* is whether prs.save succeeds
UnifiedGeneration(req, filename, slide_type, writable, categories) ==
    LET wantConceptual == slide_type \in {"conceptual", "both"}
        wantAzure == slide_type \in {"azure", "both"}
        conceptual == ConceptualLayout(categories)
        azure == UnifiedAzureLayout(categories)
        failed == "Error creating presentation"
    IN  IF wantConceptual /\ conceptual.error # "none"
        THEN Generation("unified", req, filename, slide_type, writable, categories,
                        <<conceptual.error>>, <<conceptual.slide>>, failed, "")
        ELSE IF wantAzure /\ azure.error # "none"
        THEN Generation("unified", req, filename, slide_type, writable, categories,
                        (IF wantConceptual THEN <<"none">> ELSE <<>>) \o <<azure.error>>,
                        (IF wantConceptual THEN <<conceptual.slide>> ELSE <<>>)
                            \o <<azure.slide>>,
                        failed, "")
        ELSE LET made == (IF wantConceptual THEN <<conceptual>> ELSE <<>>)
                         \o (IF wantAzure THEN <<azure>> ELSE <<>>)
                 slides == [i \in 1..Len(made) |->
                               WithRequirements(made[i].slide,
                                   made[1].security_y_pos[1] + box_height + req_margin)]
                 errors == [i \in 1..Len(made) |-> "none"]
             IN  IF writable
                 THEN Generation("unified", req, filename, slide_type, writable,
                                 categories, errors, slides, "Successfully created",
                                 FileName(filename))
                 ELSE Generation("unified", req, filename, slide_type, writable,
                                 categories, errors, slides, failed, "")

\* the directory after a generation call: the file it saved is written
Written(made) ==
    IF made.saved = "" THEN files ELSE Save(made.saved, made.slides)

\* a call of DirectBuildingBlockGenerator.create_building_block_slide
DirectCreate ==
    /\ Cardinality(DOMAIN files) < MaxFiles
    /\ \E filename \in FileNames, writable \in BOOLEAN,
          categories \in {DirectCategories(requirements)} :
         \E made \in {DirectGeneration(requirements, filename, writable, categories)} :
            /\ generation' = made
            /\ files' = Written(made)
    /\ UNCHANGED <<classifyVars, layoutVars, sessionVars>>

\* a call of UnifiedPowerPointGenerator.create_building_block_presentation
UnifiedCreate ==
    /\ Cardinality(DOMAIN files) < MaxFiles
    /\ \E filename \in FileNames, slide_type \in SlideTypes, writable \in BOOLEAN,
          categories \in {UnifiedCategories(requirements)} :
         \E made \in {UnifiedGeneration(requirements, filename, slide_type, writable,
                                        categories)} :
            /\ generation' = made
            /\ files' = Written(made)
    /\ UNCHANGED <<classifyVars, layoutVars, sessionVars>>

InitGenerate ==
    /\ requirements \in GenerationRequirements
    /\ analysis = [v \in Variants |-> NotCalled]
    /\ previous = [v \in Variants |-> NotCalled]
    /\ LayoutIdle
    /\ GenerateIdle
    /\ SessionIdle

NextGenerate == DirectCreate \/ UnifiedCreate

\* generation calls of the direct and the unified generator for one
\* requirements string, one after another
SpecGenerate == InitGenerate /\ [][NextGenerate]_vars

-----------------------------------------------------------------------------
(* Sessions: a program is started, prompts for requests and serves them.    *)
(* While a request of an agent program is served, the remote delegate calls *)
(* the agent's tool operations, in any order and number.                    *)

\* most requests a program is given
MaxRequests == 2

\* most slides the agent's presentation comes to hold
MaxSlides == 2

\* the requirements typed at a prompt
SessionRequirements ==
    {"hello", "web portal with a database",
     "AI-powered customer service with analytics"}

\* the filename argument of save_presentation
SessionFileNames == {"deck", "deck.pptx"}

\* len(self.presentation.slides), 0 while the attribute is missing
SlideCount == IF presentation = NoAttribute THEN 0 ELSE Len(presentation)

\* a running program: whether GITHUB_TOKEN is set, whether the agent
\* framework could be imported (AI_AVAILABLE), where it is, the requests
\* begun, the slides the agent held when the current request began, the last
\* report it printed, the remote calls started, the last choice or line it
\* read (for a call of a class, its mode argument), and whether the unified
\* generator holds an initialised agent
Process(program, token, framework, pc, served, first, report, remote) ==
    [program |-> program, token |-> token, framework |-> framework, pc |-> pc,
     served |-> served, first |-> first, report |-> report, remote |-> remote,
     input |-> "", agent |-> FALSE]

\* what can be typed at a prompt for requirements: a quit word, nothing, or,
\* while the program takes requests, requirements
Lines ==
    {"", "quit"}
    \cup (IF process.served < MaxRequests THEN SessionRequirements ELSE {})

\* a request begins: it is counted, and the slides held so far are noted
Begin(pc, report) ==
    [process EXCEPT !.pc = pc, !.served = @ + 1, !.first = SlideCount,
                    !.report = report]

\* a request begins with a remote call
BeginRemote == [Begin("serving", process.report) EXCEPT !.remote = @ + 1]

\* a tool operation without try / except: its exception escapes
Uncaught(error, success, failure) ==
    [returned |-> IF error = "none" THEN success ELSE "", raised |-> error,
     failure |-> error]

\* a tool operation wrapped in try / except Exception: the exception is
\* flattened to the operation's error string
Caught(error, success, failure) ==
    [returned |-> IF error = "none" THEN success ELSE failure, raised |-> "none",
     failure |-> error]

\* an operation that returns its string with no failure inside
Returned(text) == [returned |-> text, raised |-> "none", failure |-> "none"]

\* a finished call of a tool operation: its name, arguments, the start of the
\* string it returned or the exception it let escape, the exception raised
\* inside it, and, for save_presentation, the slides written
ToolCall(operation, arguments, result, written) ==
    [operation |-> operation, arguments |-> arguments, written |-> written]
    @@ result

\* the category lists the remote delegate passes for a request: what the
\* classifier names, nothing, and an id of no catalog
SessionCategoryLists == {AgentCategories(requirements), <<>>, <<UnknownCategory>>}

\* the remote delegate is serving a request of a program that exposes the
\* tools of BuildingBlockAgent
AgentServing ==
    /\ process.program \in {"building_block_agent.main", "quick_generator.main",
                            "BuildingBlockAgent.create_building_block_presentation"}
    /\ process.pc = "serving"

\* tool call BuildingBlockAgent.analyze_requirements(requirements)
ToolAnalyzeRequirements ==
    /\ AgentServing
    /\ tool' = ToolCall("analyze_requirements", <<requirements>>,
                   Returned("Analysis of requirements"),
                   Bullets(AgentCategories(requirements)))
    /\ UNCHANGED <<classifyVars, layoutVars, generateVars, process>>

\* the bullet list of get_service_recommendations: catalog categories only
Recommended(categories) ==
    Bullets(SelectSeq(categories, LAMBDA c : c \in Range(AgentCatalog)))

\* tool call BuildingBlockAgent.get_service_recommendations(categories)
ToolGetServiceRecommendations ==
    /\ AgentServing
    /\ \E categories \in SessionCategoryLists :
         tool' = ToolCall("get_service_recommendations", <<categories>>,
                     Returned("Azure Service Recommendations"),
                     Recommended(categories))
    /\ UNCHANGED <<classifyVars, layoutVars, generateVars, process>>

\* a create_building_block_slide that keeps its slide only when it succeeds
ToolCreateSlideDropsFailedSlide ==
    /\ AgentServing
    /\ SlideCount < MaxSlides
    /\ \E categories \in SessionCategoryLists :
         LET outcome == AgentLayout(SlideTitle, requirements, categories) IN
         /\ presentation' =
                IF outcome.error # "none" THEN presentation
                ELSE (IF presentation = NoAttribute THEN <<>> ELSE presentation)
                     \o <<outcome.slide>>
         /\ tool' = ToolCall("create_building_block_slide",
                        <<SlideTitle, requirements, categories>>,
                        Caught(outcome.error,
                               "Successfully created building block slide",
                               "Error creating building block slide"),
                        <<>>)
    /\ UNCHANGED <<classifyVars, prevCall, lastCall, generateVars, process>>

\* tool call BuildingBlockAgent.create_building_block_slide(title,
\* requirements, categories)
ToolCreateBuildingBlockSlide ==
    /\ AgentServing
    /\ SlideCount < MaxSlides
    /\ \E categories \in SessionCategoryLists :
         LET outcome == AgentLayout(SlideTitle, requirements, categories) IN
         /\ presentation' =
                (IF presentation = NoAttribute THEN <<>> ELSE presentation)
                \o <<outcome.slide>>
         /\ tool' = ToolCall("create_building_block_slide",
                        <<SlideTitle, requirements, categories>>,
                        Caught(outcome.error,
                               "Successfully created building block slide",
                               "Error creating building block slide"),
                        <<>>)
    /\ UNCHANGED <<classifyVars, prevCall, lastCall, generateVars, process>>

\* the name of the file save_presentation writes
AgentFileName(filename) ==
    IF EndsWith(filename, ".pptx") THEN filename ELSE filename \o ".pptx"

\* a save_presentation that writes an empty file when there is no presentation
SaveOutcomeWritesEmptyFile(operation, filename, writable) ==
    LET held == IF presentation = NoAttribute THEN <<>> ELSE presentation IN
    [tool |-> ToolCall(operation, <<filename>>,
                  Caught(IF writable THEN "none" ELSE "OSError",
                         "Successfully saved presentation",
                         "Error saving presentation"),
                  IF writable THEN held ELSE <<>>)
              @@ [slide_count |-> Len(held)],
     files |-> IF writable THEN Save(AgentFileName(filename), held) ELSE files,
     presentation |-> presentation]

\* save_presentation(filename) of BuildingBlockAgent and of PowerPointAgent,
\* ai_save_presentation(filename) of the unified generator: the call, the
\* directory and the presentation attribute after it; slide_count is the
\* number in the returned string, `writable` is whether the save succeeds
SaveOutcome(operation, filename, writable) ==
    IF presentation = NoAttribute
    THEN [tool |-> ToolCall(operation, <<filename>>,
                       Returned("No presentation to save. Create slides first."),
                       <<>>)
                   @@ [slide_count |-> 0],
          files |-> files,
          presentation |-> presentation]
    ELSE [tool |-> ToolCall(operation, <<filename>>,
                       Caught(IF writable THEN "none" ELSE "OSError",
                              "Successfully saved presentation",
                              "Error saving presentation"),
                       IF writable THEN presentation ELSE <<>>)
                   @@ [slide_count |-> Len(presentation)],
          files |-> IF writable THEN Save(AgentFileName(filename), presentation)
                    ELSE files,
          presentation |-> presentation]

\* a call of one of the three save operations
SavePresentation(operation) ==
    \E filename \in SessionFileNames, writable \in BOOLEAN :
       \E saved \in {SaveOutcome(operation, filename, writable)} :
          /\ tool' = saved.tool
          /\ files' = saved.files
          /\ presentation' = saved.presentation

\* tool call BuildingBlockAgent.save_presentation(filename)
ToolSavePresentation ==
    /\ AgentServing
    /\ SavePresentation("save_presentation")
    /\ UNCHANGED <<classifyVars, prevCall, lastCall, generation, process>>

\* the categories of azure_building_blocks, and what the delegate asks for
AzureCategories ==
    {"compute", "storage", "networking", "database", "ai_ml", "security", "monitoring"}
AskedCategories == {"Compute", "blockchain"}

\* get_azure_services(category) of PowerPointAgent, ai_get_azure_services of
\* the unified generator
GetAzureServices(operation) ==
    \E category \in AskedCategories :
       tool' = ToolCall(operation, <<category>>,
                   Returned(IF Lower(category) \in AzureCategories
                            THEN "Azure Services" ELSE "Category not found"),
                   <<>>)

\* the presentation attribute, made on the first slide-creating call
Held == IF presentation = NoAttribute THEN <<>> ELSE presentation

\* the slide types the delegate passes to create_powerpoint_slide
StandardSlideTypes == {"title", "content"}

\* create_powerpoint_slide(title, content, slide_type) for a title or a
\* content slide: a slide of a built-in layout with the title
StandardSlide(operation, slide_type) ==
    /\ presentation' = Held \o <<Slide(SlideTitle, <<>>, <<>>, <<>>, <<>>)>>
    /\ tool' = ToolCall(operation, <<SlideTitle, requirements, slide_type>>,
                   Caught("none", "Successfully created slide", "Error creating slide"),
                   <<>>)

\* the geometry of create_architecture_diagram
diagram_start_x == 150
diagram_start_y == 200
diagram_box_width == 200
diagram_box_height == 100
diagram_spacing == 50
diagram_per_row == 3
diagram_limit == 6

\* the component lists the delegate passes to create_architecture_diagram
ComponentLists ==
    {<<>>, <<"app_service", "sql_database", "key_vault", "functions">>}

\* the boxes of the first n components, three to a row
ComponentBoxes(components, n) ==
    [i \in 1..n |->
        [label  |-> components[i],
         x_pos  |-> diagram_start_x
                    + ((i - 1) % diagram_per_row) * (diagram_box_width + diagram_spacing),
         y_pos  |-> diagram_start_y
                    + ((i - 1) \div diagram_per_row) * (diagram_box_height + diagram_spacing),
         width  |-> diagram_box_width,
         height |-> diagram_box_height]]

\* create_architecture_diagram(title, components, description): the slide and
\* its title come first; each of the first six components gets a box, and
\* after the box's text is set the routine assigns to
\* text_frame.text_frame_format.autosize. `has_format` is whether the
\* library's TextFrame has that attribute: without it the first component
\* raises AttributeError, which the operation flattens.
ArchitectureDiagram(operation) ==
    \E components \in ComponentLists, has_format \in BOOLEAN :
       LET drawn == IF Len(components) < diagram_limit
                    THEN Len(components) ELSE diagram_limit
           raises == drawn > 0 /\ ~has_format
           boxes == ComponentBoxes(components, IF raises THEN 1 ELSE drawn)
       IN  /\ presentation' = Held \o <<Slide(SlideTitle, <<>>, boxes, <<>>, <<>>)>>
           /\ tool' = ToolCall(operation, <<SlideTitle, components, requirements>>,
                          Caught(IF raises THEN "AttributeError" ELSE "none",
                                 "Successfully created architecture diagram slide",
                                 "Error creating architecture diagram"),
                          <<>>)

\* the remote delegate is serving a request of a program that exposes the
\* tools of PowerPointAgent
PowerPointServing ==
    /\ process.program = "PowerPointAgent.create_presentation"
    /\ process.pc = "serving"

\* tool call PowerPointAgent.get_azure_services(category)
PowerPointGetAzureServices ==
    /\ PowerPointServing
    /\ GetAzureServices("PowerPointAgent.get_azure_services")
    /\ UNCHANGED <<classifyVars, layoutVars, generateVars, process>>

\* tool call PowerPointAgent.create_powerpoint_slide(title, content, slide_type)
PowerPointCreateSlide ==
    /\ PowerPointServing
    /\ SlideCount < MaxSlides
    /\ \E slide_type \in StandardSlideTypes :
         StandardSlide("PowerPointAgent.create_powerpoint_slide", slide_type)
    /\ UNCHANGED <<classifyVars, prevCall, lastCall, generateVars, process>>

\* tool call PowerPointAgent.create_architecture_diagram(title, components,
\* description)
PowerPointCreateArchitectureDiagram ==
    /\ PowerPointServing
    /\ SlideCount < MaxSlides
    /\ ArchitectureDiagram("PowerPointAgent.create_architecture_diagram")
    /\ UNCHANGED <<classifyVars, prevCall, lastCall, generateVars, process>>

\* tool call PowerPointAgent.save_presentation(filename)
PowerPointSavePresentation ==
    /\ PowerPointServing
    /\ SavePresentation("PowerPointAgent.save_presentation")
    /\ UNCHANGED <<classifyVars, prevCall, lastCall, generation, process>>

\* the remote delegate is serving a request of a program that exposes the
\* ai_ tools of the unified generator
UnifiedServing ==
    /\ process.program = "UnifiedPowerPointGenerator.create_ai_presentation"
    /\ process.pc = "serving"

\* tool call UnifiedPowerPointGenerator.ai_get_azure_services(category)
AiGetAzureServices ==
    /\ UnifiedServing
    /\ GetAzureServices("ai_get_azure_services")
    /\ UNCHANGED <<classifyVars, layoutVars, generateVars, process>>

\* tool call UnifiedPowerPointGenerator.ai_create_powerpoint_slide(title,
\* content, slide_type) with the request as content: "building_block"
\* classifies the content and runs create_azure_specific_slide on the
\* presentation, whose exception the operation flattens; the other types make
\* a standard slide
AiCreatePowerPointSlide ==
    /\ UnifiedServing
    /\ SlideCount < MaxSlides
    /\ \E slide_type \in StandardSlideTypes \cup {"building_block"} :
         IF slide_type = "building_block"
         THEN \E outcome \in {UnifiedAzureLayout(UnifiedCategories(requirements))} :
                 /\ presentation' = Held \o <<outcome.slide>>
                 /\ tool' = ToolCall("ai_create_powerpoint_slide",
                                <<SlideTitle, requirements, slide_type>>,
                                Caught(outcome.error,
                                       "Successfully created building block slide",
                                       "Error creating slide"),
                                <<>>)
         ELSE StandardSlide("ai_create_powerpoint_slide", slide_type)
    /\ UNCHANGED <<classifyVars, prevCall, lastCall, generateVars, process>>

\* tool call UnifiedPowerPointGenerator.ai_create_architecture_diagram(title,
\* components, description)
AiCreateArchitectureDiagram ==
    /\ UnifiedServing
    /\ SlideCount < MaxSlides
    /\ ArchitectureDiagram("ai_create_architecture_diagram")
    /\ UNCHANGED <<classifyVars, prevCall, lastCall, generateVars, process>>

\* tool call UnifiedPowerPointGenerator.ai_save_presentation(filename)
AiSavePresentation ==
    /\ UnifiedServing
    /\ SavePresentation("ai_save_presentation")
    /\ UNCHANGED <<classifyVars, prevCall, lastCall, generation, process>>

\* building_block_agent.main up to its loop: without a token it reports and
\* returns, with one it constructs the agent
AgentMainStart ==
    /\ process.program = "building_block_agent.main"
    /\ process.pc = "start"
    /\ process' = IF process.token
                  THEN [process EXCEPT !.pc = "prompt"]
                  ELSE [process EXCEPT !.pc = "returned", !.report = "missing token"]
    /\ UNCHANGED <<classifyVars, layoutVars, generateVars, tool>>

\* building_block_agent.main at its prompt: quit leaves the loop, an empty
\* line prompts again, anything else starts the remote call for the request
AgentMainInput ==
    /\ process.program = "building_block_agent.main"
    /\ process.pc = "prompt"
    /\ \E line \in Lines :
         IF line = "quit"
         THEN /\ process' = [process EXCEPT !.pc = "exited"]
              /\ UNCHANGED <<requirements, tool>>
         ELSE IF line = ""
         THEN UNCHANGED <<process, requirements, tool>>
         ELSE /\ process' = BeginRemote
              /\ requirements' = line
              /\ tool' = NoTool
    /\ UNCHANGED <<analysis, previous, layoutVars, generateVars>>

\* building_block_agent.main: the remote call returns its response
AgentMainServed ==
    /\ process.program = "building_block_agent.main"
    /\ process.pc = "serving"
    /\ process' = [process EXCEPT !.pc = "prompt", !.report = "completed"]
    /\ UNCHANGED <<classifyVars, layoutVars, generateVars, tool>>

\* building_block_agent.main: the remote call raises, `except Exception`
\* prints the error and the loop goes on
AgentMainFailed ==
    /\ process.program = "building_block_agent.main"
    /\ process.pc = "serving"
    /\ process' = [process EXCEPT !.pc = "prompt", !.report = "error"]
    /\ UNCHANGED <<classifyVars, layoutVars, generateVars, tool>>

\* powerpoint_agent.main up to its loop: without a token it reports and
\* returns, with one it constructs the agent
PowerPointMainStart ==
    /\ process.program = "powerpoint_agent.main"
    /\ process.pc = "start"
    /\ process' = IF process.token
                  THEN [process EXCEPT !.pc = "prompt"]
                  ELSE [process EXCEPT !.pc = "returned", !.report = "missing token"]
    /\ UNCHANGED <<classifyVars, layoutVars, generateVars, tool>>

\* powerpoint_agent.main at its prompt: quit leaves the loop, an empty line
\* prompts again, anything else starts the remote call for the request
PowerPointMainInput ==
    /\ process.program = "powerpoint_agent.main"
    /\ process.pc = "prompt"
    /\ \E line \in Lines :
         IF line = "quit"
         THEN /\ process' = [process EXCEPT !.pc = "exited", !.input = line]
              /\ UNCHANGED requirements
         ELSE IF line = ""
         THEN /\ process' = [process EXCEPT !.input = line]
              /\ UNCHANGED requirements
         ELSE /\ process' = [BeginRemote EXCEPT !.input = line]
              /\ requirements' = line
    /\ UNCHANGED <<analysis, previous, layoutVars, generateVars, tool>>

\* powerpoint_agent.main: the remote call returns its response
PowerPointMainServed ==
    /\ process.program = "powerpoint_agent.main"
    /\ process.pc = "serving"
    /\ process' = [process EXCEPT !.pc = "prompt", !.report = "completed"]
    /\ UNCHANGED <<classifyVars, layoutVars, generateVars, tool>>

\* powerpoint_agent.main: the remote call raises, `except Exception` prints
\* the error and the loop goes on
PowerPointMainFailed ==
    /\ process.program = "powerpoint_agent.main"
    /\ process.pc = "serving"
    /\ process' = [process EXCEPT !.pc = "prompt", !.report = "error"]
    /\ UNCHANGED <<classifyVars, layoutVars, generateVars, tool>>

\* quick_generator.main: the requirements come from the command line or one
\* prompt; generate_slide reports a missing token and returns, else it
\* constructs the agent and starts the remote call
QuickMainStart ==
    /\ process.program = "quick_generator.main"
    /\ process.pc = "start"
    /\ \E line \in SessionRequirements \cup {""} :
         IF line = ""
         THEN /\ process' = [process EXCEPT !.pc = "returned", !.input = line,
                                            !.report = "no requirements"]
              /\ UNCHANGED requirements
         ELSE IF ~process.token
         THEN /\ process' = [process EXCEPT !.pc = "returned", !.input = line,
                                            !.report = "missing token"]
              /\ UNCHANGED requirements
         ELSE /\ process' = [BeginRemote EXCEPT !.input = line]
              /\ requirements' = line
    /\ UNCHANGED <<analysis, previous, layoutVars, generateVars, tool>>

\* quick_generator.main: the remote call returns its response
QuickMainServed ==
    /\ process.program = "quick_generator.main"
    /\ process.pc = "serving"
    /\ process' = [process EXCEPT !.pc = "returned", !.report = "completed"]
    /\ UNCHANGED <<classifyVars, layoutVars, generateVars, tool>>

\* quick_generator.main: the remote call raises; nothing catches it, and the
\* exception leaves asyncio.run and main
QuickMainFailed ==
    /\ process.program = "quick_generator.main"
    /\ process.pc = "serving"
    /\ process' = [process EXCEPT !.pc = "crashed", !.report = "traceback"]
    /\ UNCHANGED <<classifyVars, layoutVars, generateVars, tool>>

\* the programs that run main_menu: the script, and a caller of the function
MenuPrograms == {"examples.__main__", "examples.main_menu"}

\* the choices of main_menu that run one example coroutine
SingleExamples == {"1", "2", "3", "4"}

\* what can be typed at the prompt of main_menu
MenuChoices ==
    {"7", "x"}
    \cup (IF process.served < MaxRequests THEN SingleExamples \cup {"5", "6"} ELSE {})

\* examples, run as a script: without a token it prints the setup text and
\* exits, else it calls main_menu; main_menu itself starts at its prompt
MenuStart ==
    /\ process.program \in MenuPrograms
    /\ process.pc = "start"
    /\ process' = IF process.program = "examples.__main__" /\ ~process.token
                  THEN [process EXCEPT !.pc = "exited", !.report = "missing token"]
                  ELSE [process EXCEPT !.pc = "prompt"]
    /\ UNCHANGED <<classifyVars, layoutVars, generateVars, tool>>

\* main_menu at its prompt. An example coroutine reports a missing token and
\* returns, else it constructs a PowerPointAgent and starts the remote call;
\* interactive_example first asks for the request, and does nothing on an
\* empty one
MenuInput ==
    /\ process.program \in MenuPrograms
    /\ process.pc = "prompt"
    /\ \E choice \in MenuChoices, line \in SessionRequirements \cup {""} :
         process' =
            IF choice = "7"
            THEN [process EXCEPT !.pc = "exited", !.input = choice]
            ELSE IF choice \notin SingleExamples \cup {"5", "6"}
            THEN [process EXCEPT !.input = choice, !.report = "invalid choice"]
            ELSE IF ~process.token
            THEN [process EXCEPT !.input = choice, !.report = "missing token"]
            ELSE IF choice = "6" /\ line = ""
            THEN [process EXCEPT !.input = choice, !.report = "no request"]
            ELSE IF choice = "5"
            THEN [BeginRemote EXCEPT !.input = choice, !.pc = "serving all"]
            ELSE [BeginRemote EXCEPT !.input = choice]
    /\ UNCHANGED <<classifyVars, layoutVars, generateVars, tool>>

\* main_menu, one example: the remote call returns its response
MenuServed ==
    /\ process.program \in MenuPrograms
    /\ process.pc = "serving"
    /\ process' = [process EXCEPT !.pc = "prompt", !.report = "completed"]
    /\ UNCHANGED <<classifyVars, layoutVars, generateVars, tool>>

\* main_menu, one example: the remote call raises; neither create_presentation,
\* the example nor main_menu catches it, and it leaves asyncio.run and main_menu
MenuFailed ==
    /\ process.program \in MenuPrograms
    /\ process.pc = "serving"
    /\ process' = [process EXCEPT !.pc = "crashed", !.report = "traceback"]
    /\ UNCHANGED <<classifyVars, layoutVars, generateVars, tool>>

\* main_menu, run_all_examples: every example ran, each in its own try, and
\* the exception of one that raised was printed
MenuAllServed ==
    /\ process.program \in MenuPrograms
    /\ process.pc = "serving all"
    /\ \E raised \in BOOLEAN :
         process' = [process EXCEPT !.pc = "prompt",
                        !.report = IF raised THEN "error" ELSE "completed"]
    /\ UNCHANGED <<classifyVars, layoutVars, generateVars, tool>>

\* the requirements string built into the generators' test runs
TestRequirements ==
    "1. User experience layer, 2. Application Layer, 3. Data and intelligence layer, 4. Integration Layer"

\* a request handled by DirectBuildingBlockGenerator.create_building_block_slide:
\* its result is printed and the program goes on at `pc`
DirectRequest(req, filename, writable, pc, input) ==
    /\ requirements' = req
    /\ \E made \in {DirectGeneration(req, filename, writable, DirectCategories(req))} :
         /\ generation' = made
         /\ files' = Written(made)
    /\ process' = [Begin(pc, "result") EXCEPT !.input = input]

\* direct_generator.main up to its loop: the built-in test generation
DirectMainStart ==
    /\ process.program = "direct_generator.main"
    /\ process.pc = "start"
    /\ \E writable \in BOOLEAN :
         DirectRequest(TestRequirements, "Multi_Layer_Architecture", writable,
                       "prompt", "")
    /\ UNCHANGED <<analysis, previous, layoutVars, tool>>

\* direct_generator.main at its prompt: quit leaves the loop, an empty line
\* prompts again, anything else is generated from
DirectMainInput ==
    /\ process.program = "direct_generator.main"
    /\ process.pc = "prompt"
    /\ \E line \in Lines, writable \in BOOLEAN :
         IF line = "quit"
         THEN /\ process' = [process EXCEPT !.pc = "exited", !.input = line]
              /\ UNCHANGED <<requirements, generateVars>>
         ELSE IF line = ""
         THEN /\ process' = [process EXCEPT !.input = line]
              /\ UNCHANGED <<requirements, generateVars>>
         ELSE DirectRequest(line, "", writable, "prompt", line)
    /\ UNCHANGED <<analysis, previous, layoutVars, tool>>

\* FixedBuildingBlockGenerator.create_slide that lets a failure of the AI path
\* escape instead of generating directly
CreateSlideWithoutFallback(req, use_ai, token, ai_raises, writable) ==
    IF use_ai /\ token /\ ai_raises
    THEN [ai |-> TRUE, caught |-> FALSE, raised |-> "Exception", made |-> NoGeneration]
    ELSE [ai |-> use_ai /\ token, caught |-> FALSE, raised |-> "none",
          made |-> DirectGeneration(req, "", writable, DirectCategories(req))]

\* FixedBuildingBlockGenerator.create_slide(requirements, use_ai): whether it
\* took the AI path, whether a step of that path raised and was caught, the
\* exception it let escape, and the generation whose status it returns
CreateSlide(req, use_ai, token, ai_raises, writable) ==
    [ai |-> use_ai /\ token, caught |-> use_ai /\ token /\ ai_raises,
     raised |-> "none",
     made |-> DirectGeneration(req, "", writable, DirectCategories(req))]

\* a request handled by FixedBuildingBlockGenerator.create_slide: the program
\* goes on at `pc` when the call returns and at `failed` when it raises
CreateSlideRequest(req, use_ai, ai_raises, writable, pc, failed, input) ==
    \E slide \in {CreateSlide(req, use_ai, process.token, ai_raises, writable)} :
       /\ requirements' = req
       /\ generation' = slide.made
       /\ files' = IF slide.made = NoGeneration THEN files ELSE Written(slide.made)
       /\ process' =
             [Begin(IF slide.raised = "none" THEN pc ELSE failed,
                    IF slide.raised # "none" THEN "error"
                    ELSE IF slide.caught THEN "ai failed" ELSE "result")
              EXCEPT !.input = input]

\* a call of FixedBuildingBlockGenerator.create_slide from a program that
\* imports the class
FixedCreateSlide ==
    /\ process.program = "FixedBuildingBlockGenerator.create_slide"
    /\ process.pc = "start"
    /\ \E req \in SessionRequirements, use_ai \in BOOLEAN, ai_raises \in BOOLEAN,
          writable \in BOOLEAN :
         CreateSlideRequest(req, use_ai, ai_raises, writable, "returned", "raised",
                            IF use_ai THEN "use_ai" ELSE "direct")
    /\ UNCHANGED <<analysis, previous, layoutVars, tool>>

\* fixed_generator.main up to its loop: the generator is constructed with
\* whatever token there is
FixedMainStart ==
    /\ process.program = "fixed_generator.main"
    /\ process.pc = "start"
    /\ process' = [process EXCEPT !.pc = "prompt"]
    /\ UNCHANGED <<classifyVars, layoutVars, generateVars, tool>>

\* what can be typed at the first prompt of fixed_generator.main
FixedChoices ==
    {"quit"} \cup (IF process.served < MaxRequests THEN {"1", "2", "3", "9"} ELSE {})

\* fixed_generator.main at its prompt: quit leaves the loop, 3 runs the test
\* generation, any other choice asks for requirements and on an empty line
\* prompts again; then 1 generates directly, 2 calls create_slide with
\* use_ai, anything else is an invalid choice; `except Exception` prints
\* what the try block raises
FixedMainInput ==
    /\ process.program = "fixed_generator.main"
    /\ process.pc = "prompt"
    /\ \E choice \in FixedChoices :
         IF choice = "quit"
         THEN /\ process' = [process EXCEPT !.pc = "exited", !.input = choice]
              /\ UNCHANGED <<requirements, generateVars>>
         ELSE IF choice = "3"
         THEN \E writable \in BOOLEAN :
                 DirectRequest(TestRequirements, "Test_Multi_Layer_Architecture",
                               writable, "prompt", choice)
         ELSE \E line \in SessionRequirements \cup {""} :
                 IF line = ""
                 THEN /\ process' = [process EXCEPT !.input = choice]
                      /\ UNCHANGED <<requirements, generateVars>>
                 ELSE IF choice = "1"
                 THEN \E writable \in BOOLEAN :
                         DirectRequest(line, "", writable, "prompt", choice)
                 ELSE IF choice = "2"
                 THEN \E ai_raises \in BOOLEAN, writable \in BOOLEAN :
                         CreateSlideRequest(line, TRUE, ai_raises, writable,
                                            "prompt", "prompt", choice)
                 ELSE /\ process' = [process EXCEPT !.input = choice,
                                                    !.report = "invalid choice"]
                      /\ requirements' = line
                      /\ UNCHANGED generateVars
    /\ UNCHANGED <<analysis, previous, layoutVars, tool>>

\* the method argument of UnifiedPowerPointGenerator.generate
Methods == {"direct", "ai", "auto", "fast"}

\* generate that takes "auto" for "ai" and never falls back to "direct"
GenerateRouteWithoutFallback(method, token, framework) ==
    IF method = "auto" THEN "ai" ELSE method

\* a router that runs the direct generation for any method it does not know
GenerateRouteUnknownIsDirect(method, token, framework) ==
    IF method \in {"ai", "auto"} /\ framework /\ token THEN "ai" ELSE "direct"

\* the method UnifiedPowerPointGenerator.generate ends up running
GenerateRoute(method, token, framework) ==
    LET chosen == IF method = "auto"
                  THEN (IF framework /\ token THEN "ai" ELSE "direct")
                  ELSE method
    IN  IF chosen = "ai" /\ (~framework \/ ~token) THEN "direct" ELSE chosen

\* a request handled by UnifiedPowerPointGenerator.generate: the direct route
\* generates and returns; the ai route is create_ai_presentation, which
\* returns an error string without the framework, without a token or when
\* the agent cannot be initialised, and else starts the remote call; any
\* other method returns the unknown-method string
GenerateRequest(req, method, filename, slide_type, writable, initialised, pc, input) ==
    \E route \in {GenerateRoute(method, process.token, process.framework)} :
       /\ requirements' = req
       /\ IF route = "direct"
          THEN /\ \E made \in {UnifiedGeneration(req, filename, slide_type, writable,
                                                 UnifiedCategories(req))} :
                    /\ generation' = made
                    /\ files' = Written(made)
               /\ process' = [Begin(pc, "result") EXCEPT !.input = input]
          ELSE /\ generation' = NoGeneration
               /\ UNCHANGED files
               /\ process' =
                     IF route # "ai"
                     THEN [Begin(pc, "unknown method") EXCEPT !.input = input]
                     ELSE IF ~process.framework
                     THEN [Begin(pc, "ai not available") EXCEPT !.input = input]
                     ELSE IF ~process.token
                     THEN [Begin(pc, "token required") EXCEPT !.input = input]
                     ELSE IF ~process.agent /\ ~initialised
                     THEN [Begin(pc, "agent not initialised") EXCEPT !.input = input]
                     ELSE [BeginRemote EXCEPT !.input = input, !.agent = TRUE]

\* a call of UnifiedPowerPointGenerator.generate from a program that imports
\* the class
UnifiedGenerate ==
    /\ process.program = "UnifiedPowerPointGenerator.generate"
    /\ process.pc = "start"
    /\ \E req \in SessionRequirements, method \in Methods :
         IF GenerateRoute(method, process.token, process.framework) = "direct"
         THEN \E filename \in SessionFileNames \cup {""},
                 slide_type \in {"both", "azure"}, writable \in BOOLEAN :
                 GenerateRequest(req, method, filename, slide_type, writable, TRUE,
                                 "returned", method)
         ELSE \E initialised \in BOOLEAN :
                 GenerateRequest(req, method, "", "both", TRUE, initialised,
                                 "returned", method)
    /\ UNCHANGED <<analysis, previous, layoutVars, tool>>

\* UnifiedPowerPointGenerator.generate: the remote call returns its response
UnifiedGenerateServed ==
    /\ process.program = "UnifiedPowerPointGenerator.generate"
    /\ process.pc = "serving"
    /\ process' = [process EXCEPT !.pc = "returned", !.report = "completed"]
    /\ UNCHANGED <<classifyVars, layoutVars, generateVars, tool>>

\* UnifiedPowerPointGenerator.generate: the remote call raises, and the
\* exception leaves asyncio.run and generate
UnifiedGenerateFailed ==
    /\ process.program = "UnifiedPowerPointGenerator.generate"
    /\ process.pc = "serving"
    /\ process' = [process EXCEPT !.pc = "raised", !.report = "error"]
    /\ UNCHANGED <<classifyVars, layoutVars, generateVars, tool>>

\* unified_powerpoint_generator.main up to its loop: the generator is
\* constructed with whatever token there is
UnifiedMainStart ==
    /\ process.program = "unified_powerpoint_generator.main"
    /\ process.pc = "start"
    /\ process' = [process EXCEPT !.pc = "prompt"]
    /\ UNCHANGED <<classifyVars, layoutVars, generateVars, tool>>

\* what can be typed at the first prompt of unified_powerpoint_generator.main
UnifiedChoices ==
    {"4"} \cup (IF process.served < MaxRequests THEN {"1", "2", "3", "9"} ELSE {})

\* what can be typed at the file-name prompt
TypedFileNames == {"", "deck"}

\* what can be typed at the slide-type prompt of choice 1
SlideChoices == {"", "2", "3", "7"}

\* the slide type chosen at the slide-type prompt
SlideChoice(slide_choice) ==
    IF slide_choice = "2" THEN "conceptual"
    ELSE IF slide_choice = "3" THEN "azure"
    ELSE "both"

\* unified_powerpoint_generator.main at its prompt: 4 leaves the loop, 3 runs
\* the test generation, any other choice asks for requirements, refusing an
\* empty line, and for a file name; then 1 asks for the slide type and
\* generates directly, 2 generates directly without the framework or the
\* token and through the ai method with both, anything else is an invalid
\* choice
UnifiedMainInput ==
    /\ process.program = "unified_powerpoint_generator.main"
    /\ process.pc = "prompt"
    /\ \E choice \in UnifiedChoices :
         IF choice = "4"
         THEN /\ process' = [process EXCEPT !.pc = "exited", !.input = choice]
              /\ UNCHANGED <<requirements, generateVars>>
         ELSE IF choice = "3"
         THEN \E writable \in BOOLEAN :
                 GenerateRequest(TestRequirements, "direct",
                                 "Test_Multi_Layer_Architecture", "both", writable,
                                 TRUE, "prompt", choice)
         ELSE \E line \in SessionRequirements \cup {""} :
                 IF line = ""
                 THEN /\ process' = [process EXCEPT !.input = choice,
                                                    !.report = "requirements empty"]
                      /\ UNCHANGED <<requirements, generateVars>>
                 ELSE IF choice = "1"
                 THEN \E filename \in TypedFileNames,
                         slide_choice \in SlideChoices, writable \in BOOLEAN :
                         GenerateRequest(line, "direct", filename,
                                         SlideChoice(slide_choice), writable, TRUE,
                                         "prompt", choice)
                 ELSE IF choice = "2"
                 THEN IF ~process.framework \/ ~process.token
                      THEN \E filename \in TypedFileNames,
                              writable \in BOOLEAN :
                              GenerateRequest(line, "direct", filename, "both",
                                              writable, TRUE, "prompt", choice)
                      ELSE \E initialised \in BOOLEAN :
                              GenerateRequest(line, "ai", "", "both", TRUE,
                                              initialised, "prompt", choice)
                 ELSE /\ process' = [process EXCEPT !.input = choice,
                                                    !.report = "invalid choice"]
                      /\ requirements' = line
                      /\ UNCHANGED generateVars
    /\ UNCHANGED <<analysis, previous, layoutVars, tool>>

\* unified_powerpoint_generator.main: the remote call returns its response,
\* which is printed
UnifiedMainServed ==
    /\ process.program = "unified_powerpoint_generator.main"
    /\ process.pc = "serving"
    /\ process' = [process EXCEPT !.pc = "prompt", !.report = "completed"]
    /\ UNCHANGED <<classifyVars, layoutVars, generateVars, tool>>

\* unified_powerpoint_generator.main: the remote call raises, `except
\* Exception` prints the error and the loop goes on
UnifiedMainFailed ==
    /\ process.program = "unified_powerpoint_generator.main"
    /\ process.pc = "serving"
    /\ process' = [process EXCEPT !.pc = "prompt", !.report = "error"]
    /\ UNCHANGED <<classifyVars, layoutVars, generateVars, tool>>

\* the programs with an interactive loop
LoopPrograms ==
    {"building_block_agent.main", "powerpoint_agent.main", "direct_generator.main",
     "fixed_generator.main", "unified_powerpoint_generator.main"}
    \cup MenuPrograms

\* the programs that cannot be imported without the agent framework
FrameworkPrograms ==
    {"building_block_agent.main", "powerpoint_agent.main", "quick_generator.main",
     "fixed_generator.main", "FixedBuildingBlockGenerator.create_slide"}
    \cup MenuPrograms

\* the programs of the repository and the calls of its two generator classes
Programs ==
    LoopPrograms
    \cup {"quick_generator.main", "FixedBuildingBlockGenerator.create_slide",
          "UnifiedPowerPointGenerator.generate"}

InitSession ==
    /\ requirements = ""
    /\ analysis = [v \in Variants |-> NotCalled]
    /\ previous = [v \in Variants |-> NotCalled]
    /\ LayoutIdle
    /\ GenerateIdle
    /\ tool = NoTool
    /\ \E program \in Programs, token \in BOOLEAN, framework \in BOOLEAN :
         /\ program \in FrameworkPrograms => framework
         /\ process = Process(program, token, framework, "start", 0, 0, "none", 0)

NextSession ==
    \/ AgentMainStart
    \/ AgentMainInput
    \/ AgentMainServed
    \/ AgentMainFailed
    \/ ToolAnalyzeRequirements
    \/ ToolGetServiceRecommendations
    \/ ToolCreateBuildingBlockSlide
    \/ ToolSavePresentation
    \/ PowerPointMainStart
    \/ PowerPointMainInput
    \/ PowerPointMainServed
    \/ PowerPointMainFailed
    \/ QuickMainStart
    \/ QuickMainServed
    \/ QuickMainFailed
    \/ MenuStart
    \/ MenuInput
    \/ MenuServed
    \/ MenuFailed
    \/ MenuAllServed
    \/ DirectMainStart
    \/ DirectMainInput
    \/ FixedCreateSlide
    \/ FixedMainStart
    \/ FixedMainInput
    \/ UnifiedGenerate
    \/ UnifiedGenerateServed
    \/ UnifiedGenerateFailed
    \/ UnifiedMainStart
    \/ UnifiedMainInput
    \/ UnifiedMainServed
    \/ UnifiedMainFailed

\* every program started with and without a token, given up to MaxRequests
\* requests
SpecSession == InitSession /\ [][NextSession]_vars

-----------------------------------------------------------------------------
(* Tool runs: a program constructs one agent with a token and awaits its    *)
(* presentation coroutine, as quick_generator and the examples do. While    *)
(* the coroutine is served, the remote delegate calls the tool operations   *)
(* of that agent, in any order and number.                                  *)

\* the presentation coroutines of the three classes with tools
Coroutines ==
    {"BuildingBlockAgent.create_building_block_presentation",
     "PowerPointAgent.create_presentation",
     "UnifiedPowerPointGenerator.create_ai_presentation"}

\* the coroutine up to its remote call: the agent is initialised first.
\* initialize_agent of the two agent classes has no try, so a failure in it
\* leaves the coroutine; initialize_ai_agent of the unified generator returns
\* False, and the coroutine returns its error string
CoroutineStart ==
    /\ process.program \in Coroutines
    /\ process.pc = "start"
    /\ \E req \in SessionRequirements, initialised \in BOOLEAN :
         /\ requirements' = req
         /\ process' =
               IF initialised
               THEN [BeginRemote EXCEPT !.agent = TRUE]
               ELSE IF process.program = "UnifiedPowerPointGenerator.create_ai_presentation"
               THEN Begin("returned", "agent not initialised")
               ELSE Begin("raised", "error")
    /\ UNCHANGED <<analysis, previous, layoutVars, generateVars, tool>>

\* the remote call ends and the coroutine returns the response text
CoroutineServed ==
    /\ process.program \in Coroutines
    /\ process.pc = "serving"
    /\ process' = [process EXCEPT !.pc = "returned", !.report = "completed"]
    /\ UNCHANGED <<classifyVars, layoutVars, generateVars, tool>>

\* the remote call raises, and the exception leaves the coroutine
CoroutineFailed ==
    /\ process.program \in Coroutines
    /\ process.pc = "serving"
    /\ process' = [process EXCEPT !.pc = "raised", !.report = "error"]
    /\ UNCHANGED <<classifyVars, layoutVars, generateVars, tool>>

InitTools ==
    /\ requirements = ""
    /\ analysis = [v \in Variants |-> NotCalled]
    /\ previous = [v \in Variants |-> NotCalled]
    /\ LayoutIdle
    /\ GenerateIdle
    /\ tool = NoTool
    /\ \E program \in Coroutines :
         process = Process(program, TRUE, TRUE, "start", 0, 0, "none", 0)

NextTools ==
    \/ CoroutineStart
    \/ CoroutineServed
    \/ CoroutineFailed
    \/ ToolAnalyzeRequirements
    \/ ToolGetServiceRecommendations
    \/ ToolCreateBuildingBlockSlide
    \/ ToolSavePresentation
    \/ PowerPointGetAzureServices
    \/ PowerPointCreateSlide
    \/ PowerPointCreateArchitectureDiagram
    \/ PowerPointSavePresentation
    \/ AiGetAzureServices
    \/ AiCreatePowerPointSlide
    \/ AiCreateArchitectureDiagram
    \/ AiSavePresentation

\* one presentation coroutine of each class, with the tool calls made in it
SpecTools == InitTools /\ [][NextTools]_vars

-----------------------------------------------------------------------------
(* Properties of the classifiers *)

\* the variants that have classified `requirements`
Called == {v \in Variants : analysis[v].called}

\* x comes before y in the sequence s
Before(s, x, y) ==
    /\ x \in Range(s)
    /\ y \in Range(s)
    /\ FirstIndex(s, x) < FirstIndex(s, y)

\* C3: in every classifier variant the returned category sequence holds no
\* category twice, holds exactly the categories some check appended, and
\* orders them by the position of their first trigger.
C3_NoDuplicatesFirstTriggerWins ==
    \A v \in Called :
        LET r == analysis[v] IN
        /\ NoDuplicates(r.categories)
        /\ Range(r.categories) = Range(r.appended)
        /\ \A i, j \in 1..Len(r.categories) :
               i < j => FirstIndex(r.appended, r.categories[i])
                            < FirstIndex(r.appended, r.categories[j])

\* C3 witness: the agent classified a string that triggered one category in
\* two checks, with another category between the two triggers.
C3_Witness ==
    /\ analysis["agent"].called
    /\ \E i, j, k \in 1..Len(analysis["agent"].appended) :
           /\ i < k /\ k < j
           /\ analysis["agent"].appended[i] = analysis["agent"].appended[j]
           /\ analysis["agent"].appended[k] # analysis["agent"].appended[i]

\* any two categories that are in both sequences stand in the same order
SameOrder(s, t) ==
    \A x, y \in Range(s) \cap Range(t) : Before(s, x, y) => Before(t, x, y)

\* s is t with some elements left out (t without duplicates)
IsSubsequence(s, t) ==
    /\ NoDuplicates(s)
    /\ Range(s) \subseteq Range(t)
    /\ \A x, y \in Range(s) : Before(s, x, y) => Before(t, x, y)

\* s without the elements of `dropped`
Without(s, dropped) == SelectSeq(s, LAMBDA x : x \notin dropped)

\* the variants that have answered this request and the one before
CalledTwice == {v \in Called : previous[v].called}

\* C4 (as claimed): in every variant the results for any two requirements
\* strings order the categories they share alike, as subsequences of one
\* total order would.
C4_OneOrderInEveryVariant ==
    \A v \in CalledTwice : SameOrder(previous[v].categories, analysis[v].categories)

\* C4 (amended): the direct and the unified result is a subsequence of
\* web_application, ai_analytics, data_platform, integration, and two results
\* order shared categories alike; in the agent result only ai_analytics
\* before data_platform and security, infrastructure after all others are
\* fixed: web_application and integration stand where their first check puts
\* them, before or after ai_analytics and data_platform.
C4_FixedOrderDirectUnifiedPartialAgent ==
    /\ \A v \in Called \ {"agent"} :
           IsSubsequence(analysis[v].categories, DirectCatalog)
    /\ \A v \in CalledTwice \ {"agent"} :
           SameOrder(previous[v].categories, analysis[v].categories)
    /\ "agent" \in Called =>
           /\ IsSubsequence(
                  Without(analysis["agent"].categories, {"web_application", "integration"}),
                  <<"ai_analytics", "data_platform", "security", "infrastructure">>)
           /\ \A x \in {"web_application", "integration"} :
                  \A y \in {"security", "infrastructure"} :
                      {x, y} \subseteq Range(analysis["agent"].categories)
                          => Before(analysis["agent"].categories, x, y)

\* C4 witness: every variant has answered two requests; the direct result
\* holds all four categories, and the agent put web_application before
\* ai_analytics for one request and after it for the other.
C4_Witness ==
    /\ CalledTwice = Variants
    /\ Len(analysis["direct"].categories) = 4
    /\ Len(previous["direct"].categories) >= 2
    /\ Before(analysis["agent"].categories, "web_application", "ai_analytics")
    /\ Before(previous["agent"].categories, "ai_analytics", "web_application")

C5_DatabaseAndWebInEveryVariant ==
    \A v \in Called :
        LET cats == Range(analysis[v].categories) IN
        /\ requirements = "web portal with a database"
               => {"web_application", "data_platform"} \subseteq cats
        /\ Contains(Lower(requirements), "database") => "data_platform" \in cats
        /\ AnyIn({"web", "portal"}, Lower(requirements)) => "web_application" \in cats

\* every term the direct and the unified classifier look for
DirectTerms ==
    {"user experience", "ux", "frontend", "application layer", "app layer", "web",
     "portal", "data and intelligence", "data intelligence", "analytics", "ai",
     "machine learning", "integration layer", "integration", "api"}

\* every term the agent classifier looks for
AgentTerms ==
    {"user experience", "ux", "frontend", "application layer", "app layer",
     "data and intelligence", "data intelligence", "analytics", "integration layer"}
    \cup ai_keywords \cup web_keywords \cup data_keywords
    \cup integration_keywords \cup security_keywords

\* C6: on a requirements string without any keyword the direct and the unified
\* classifier return the empty sequence and the agent classifier exactly
\* <<infrastructure>>.
C6_NoKeywordNoCategory ==
    /\ \A v \in Called \cap {"direct", "unified"} :
           ~AnyIn(DirectTerms, Lower(requirements)) => analysis[v].categories = <<>>
    /\ analysis["agent"].called /\ ~AnyIn(AgentTerms, Lower(requirements))
           => analysis["agent"].categories = <<"infrastructure">>

\* C6 witness: all three variants have classified the whitespace-only string.
C6_Witness ==
    /\ requirements = "  "
    /\ Called = Variants
    /\ analysis["direct"].categories = <<>>
    /\ analysis["agent"].categories = <<"infrastructure">>

\* C7: the agent's category sequence is never empty, holds infrastructure
\* exactly once and as its last element, and holds ai_analytics before it
\* whenever the input contains "ai" or "analytics".
C7_AgentInfrastructureLast ==
    analysis["agent"].called =>
        LET cats == analysis["agent"].categories IN
        /\ Len(cats) >= 1
        /\ cats[Len(cats)] = "infrastructure"
        /\ Cardinality({i \in 1..Len(cats) : cats[i] = "infrastructure"}) = 1
        /\ AnyIn({"ai", "analytics"}, Lower(requirements))
               => Before(cats, "ai_analytics", "infrastructure")

\* C7 witness: the agent classified the documented AI scenario.
C7_Witness ==
    /\ requirements = "AI-powered customer service with analytics"
    /\ analysis["agent"].called
    /\ Before(analysis["agent"].categories, "ai_analytics", "infrastructure")

\* the terms of the analytics check of the direct and the unified classifier
AnalyticsTerms ==
    {"data and intelligence", "data intelligence", "analytics", "ai",
     "machine learning"}

\* the data keywords the claim names for the agent besides "data"
OwnDataKeywords == {"database", "storage", "sql", "cosmos", "warehouse", "lake"}

\* C21 (as claimed): in every variant data_platform is in the result only if
\* the lower-cased input contains "data" or, in the agent variant, one of its
\* data keywords.
C21_DataPlatformOnlyWithData ==
    \A v \in Called :
        "data_platform" \in Range(analysis[v].categories) =>
            \/ Contains(Lower(requirements), "data")
            \/ v = "agent" /\ AnyIn(OwnDataKeywords, Lower(requirements))

\* C21 (amended): in the direct and the unified variant data_platform is in
\* the result exactly when an analytics term and "data" are in the lower-cased
\* input; in the agent variant exactly when "analytics", "data" or one of its
\* other data keywords is: its layer check appends data_platform with
\* ai_analytics on "analytics" alone.
C21_DataPlatformWithDataOrAgentAnalytics ==
    \A v \in Called :
        "data_platform" \in Range(analysis[v].categories) <=>
            IF v = "agent"
            THEN \/ Contains(Lower(requirements), "analytics")
                 \/ Contains(Lower(requirements), "data")
                 \/ AnyIn(OwnDataKeywords, Lower(requirements))
            ELSE /\ AnyIn(AnalyticsTerms, Lower(requirements))
                 /\ Contains(Lower(requirements), "data")

\* C21 witness: every variant classified "AI-powered customer service with
\* analytics", which holds no "data"; the agent returned data_platform, the
\* direct classifier ai_analytics without it.
C21_Witness ==
    /\ Called = Variants
    /\ requirements = "AI-powered customer service with analytics"
    /\ "data_platform" \in Range(analysis["agent"].categories)
    /\ "ai_analytics" \in Range(analysis["direct"].categories)
    /\ "data_platform" \notin Range(analysis["direct"].categories)

\* C28: the direct and the unified classifier are the same function: called
\* on the same requirements string they append and return the same category
\* sequence.
C28_DirectAndUnifiedClassifyAlike ==
    {"direct", "unified"} \subseteq Called =>
        /\ analysis["direct"].appended = analysis["unified"].appended
        /\ analysis["direct"].categories = analysis["unified"].categories

\* C28 witness: both classifiers were called on a string with a portal, data
\* and analytics, and both returned web_application, ai_analytics, data_platform.
C28_Witness ==
    /\ {"direct", "unified"} \subseteq Called
    /\ requirements = "Healthcare management system with patient portal and data analytics"
    /\ analysis["direct"].categories = <<"web_application", "ai_analytics", "data_platform">>
    /\ analysis["unified"].categories = <<"web_application", "ai_analytics", "data_platform">>

\* C29: the agent classifier is at least as inclusive as the direct one:
\* called on the same requirements string, every category the direct
\* classifier returns is among the agent's categories.
C29_AgentIncludesDirect ==
    {"agent", "direct"} \subseteq Called =>
        Range(analysis["direct"].categories) \subseteq Range(analysis["agent"].categories)

\* C29 witness: on "portal" the direct classifier returned web_application,
\* and the agent has it too, from its web keywords, with infrastructure.
C29_Witness ==
    /\ {"agent", "direct"} \subseteq Called
    /\ requirements = "portal"
    /\ analysis["direct"].categories = <<"web_application">>
    /\ analysis["agent"].categories = <<"web_application", "infrastructure">>

\* C30: classifier output is bounded. The direct and the unified classifier
\* return at most 4 categories, without repetition, all among web_application,
\* ai_analytics, data_platform, integration; the agent returns between 1 and
\* 6, without repetition, all keys of its catalog. So a layout routine run on
\* classifier output counts every entry, finds every id in its catalog, and
\* the agent's routine never takes its tier for more than 6 categories.
C30_ClassifierOutputBounded ==
    \A v \in Called :
        LET categories == analysis[v].categories IN
        /\ NoDuplicates(categories)
        /\ IF v = "agent"
           THEN /\ Len(categories) \in 1..6
                /\ Range(categories) \subseteq Range(AgentCatalog)
                /\ AgentNumCategories(categories) = Len(categories)
                /\ AgentTier(AgentNumCategories(categories)) # AgentTier(7)
           ELSE /\ Len(categories) \in 0..4
                /\ Range(categories) \subseteq
                      {"web_application", "ai_analytics", "data_platform", "integration"}
                /\ Range(categories) \subseteq Range(DirectCatalog)

\* C30 witness: on a string that meets every check the agent returned all 6
\* categories of its catalog and the direct classifier all 4 of its.
C30_Witness ==
    /\ Called = Variants
    /\ requirements = "web api with data analytics and security"
    /\ Len(analysis["agent"].categories) = 6
    /\ Len(analysis["direct"].categories) = 4
    /\ Len(analysis["unified"].categories) = 4

-----------------------------------------------------------------------------
(* Properties of the layout routines *)

\* a layout routine has been called
Laid == lastCall.routine # "none"

\* the catalog a routine draws its blocks from
CatalogOf(routine) ==
    IF routine = "agent.create_building_block_slide" THEN Range(AgentCatalog)
    ELSE Range(DirectCatalog)

\* every entry of the call's category list is in its routine's catalog
AllInCatalog(call) == Range(call.categories) \subseteq CatalogOf(call.routine)

\* where a slide's blocks are
Positions(call) ==
    {<<call.slide.blocks[i].x_pos, call.slide.blocks[i].y_pos>> :
        i \in 1..Len(call.slide.blocks)}

\* two calls left the same geometry
SameGeometry(c, d) ==
    /\ c.blocks_per_row = d.blocks_per_row
    /\ c.block_width = d.block_width
    /\ c.block_height = d.block_height
    /\ Positions(c) = Positions(d)
    /\ c.security_y_pos = d.security_y_pos
    /\ [i \in 1..Len(c.slide.boxes) |-> c.slide.boxes[i].y_pos]
           = [i \in 1..Len(d.slide.boxes) |-> d.slide.boxes[i].y_pos]

\* two calls of one routine on category lists of the same length
EqualLengthCalls ==
    /\ prevCall.routine # "none"
    /\ prevCall.routine = lastCall.routine
    /\ Len(prevCall.categories) = Len(lastCall.categories)

\* C1 (as claimed): every layout routine draws exactly 7 cross-cutting boxes
\* on its slide, whatever the category list, the empty one included.
C1_SevenBoxesAlways == Laid => Len(lastCall.slide.boxes) = 7

\* C1 witness: the unified generator's conceptual routine was called on the
\* empty list and left a slide without a cross-cutting box.
C1_Witness ==
    /\ lastCall.routine = "unified.create_conceptual_slide"
    /\ lastCall.categories = <<>>
    /\ lastCall.slide.boxes = <<>>

\* C8 (as claimed): two category lists of the same length, whatever ids they
\* hold, get the same geometry from a layout routine.
C8_EqualLengthSameGeometry == EqualLengthCalls => SameGeometry(prevCall, lastCall)

\* C8 witness: the agent laid out a list of four catalog categories and then
\* a list of three of them and an unknown id, and sized the blocks differently.
C8_Witness ==
    /\ EqualLengthCalls
    /\ lastCall.routine = "agent.create_building_block_slide"
    /\ Len(lastCall.categories) = 4
    /\ AllInCatalog(prevCall)
    /\ Cardinality(Range(lastCall.categories) \cap CatalogOf(lastCall.routine)) = 3
    /\ UnknownCategory \in Range(lastCall.categories)
    /\ prevCall.error = "none" /\ lastCall.error = "none"
    /\ prevCall.block_width # lastCall.block_width

\* Restricted to lists whose ids are all in the routine's catalog, the
\* geometry does follow from the length alone.
CatalogListsSameGeometry ==
    EqualLengthCalls /\ AllInCatalog(prevCall) /\ AllInCatalog(lastCall)
        => SameGeometry(prevCall, lastCall)

\* C9 (as claimed): every layout routine picks its geometry by the length n
\* of the category list: one row of n blocks for 1..3, 3 per row for 4..6,
\* and for more than 6 3 per row with a block width and height strictly
\* smaller than for 4..6.
C9_ThreeTiersByLength ==
    Laid =>
        LET n == Len(lastCall.categories) IN
        /\ n \in 1..3 =>
               /\ lastCall.blocks_per_row = n
               /\ \A p, q \in Positions(lastCall) : p[2] = q[2]
        /\ n \in 4..6 => lastCall.blocks_per_row = 3
        /\ n > 6 => lastCall.blocks_per_row = 3
        /\ n > 6 /\ prevCall.routine = lastCall.routine
                 /\ Len(prevCall.categories) \in 4..6
               => /\ lastCall.block_width < prevCall.block_width
                  /\ lastCall.block_height < prevCall.block_height

\* C9 witness: the direct generator's conceptual routine laid out 5 and then
\* 7 categories with blocks of one size.
C9_Witness ==
    /\ lastCall.routine = "direct.create_conceptual_slide"
    /\ prevCall.routine = lastCall.routine
    /\ Len(prevCall.categories) = 5
    /\ Len(lastCall.categories) = 7
    /\ lastCall.error = "none"
    /\ lastCall.block_width = prevCall.block_width
    /\ lastCall.block_height = prevCall.block_height

\* the y of the rows that hold a block, and the blocks of one row
RowsOf(call) == {p[2] : p \in Positions(call)}
BlocksInRow(call, y) ==
    Cardinality({i \in 1..Len(call.slide.blocks) : call.slide.blocks[i].y_pos = y})

\* C10: for a list of 5 catalog categories the agent's routine places 3
\* blocks in a first row and 2 in a second, each 2.5 in wide and 1.8 in high.
C10_AgentFiveCategoriesTwoRows ==
    /\ lastCall.routine = "agent.create_building_block_slide"
    /\ Len(lastCall.categories) = 5
    /\ AllInCatalog(lastCall)
    => /\ Len(lastCall.slide.blocks) = 5
       /\ Cardinality(RowsOf(lastCall)) = 2
       /\ \E first, second \in RowsOf(lastCall) :
              /\ first < second
              /\ BlocksInRow(lastCall, first) = 3
              /\ BlocksInRow(lastCall, second) = 2
       /\ \A i \in 1..Len(lastCall.slide.blocks) :
              /\ lastCall.slide.blocks[i].width = 250
              /\ lastCall.slide.blocks[i].height = 180

\* C10 witness: the agent laid out five different catalog categories.
C10_Witness ==
    /\ lastCall.routine = "agent.create_building_block_slide"
    /\ Len(lastCall.categories) = 5
    /\ AllInCatalog(lastCall)
    /\ Cardinality(Range(lastCall.categories)) = 5
    /\ lastCall.returned = "Successfully created building block slide"

\* the y of a routine's first block row
StartY(routine) ==
    IF routine = "agent.create_building_block_slide" THEN agent_start_y
    ELSE direct_start_y

\* the indexes (from 1) of the entries of the call's list that are in its
\* routine's catalog, ascending
DrawnIndexes(call) ==
    SelectSeq([i \in 1..Len(call.categories) |-> i],
              LAMBDA i : call.categories[i] \in CatalogOf(call.routine))

\* the rectangle of `category` in cell number `cell` (from 0) of the call's grid
InCell(call, category, cell) ==
    [category |-> category,
     x_pos    |-> start_x + (cell % call.blocks_per_row) * (call.block_width + spacing_x),
     y_pos    |-> StartY(call.routine)
                  + (cell \div call.blocks_per_row) * (call.block_height + spacing_y),
     width    |-> call.block_width,
     height   |-> call.block_height]

\* the blocks of the call's list with each category in the cell of its index
ByIndex(call) ==
    LET drawn == DrawnIndexes(call) IN
    [j \in 1..Len(drawn) |-> InCell(call, call.categories[drawn[j]], drawn[j] - 1)]

\* the blocks of the call's list with each category in the cell after the
\* catalog categories before it
ByCount(call) ==
    LET drawn == DrawnIndexes(call) IN
    [j \in 1..Len(drawn) |-> InCell(call, call.categories[drawn[j]], j - 1)]

\* s is the start of t
IsPrefix(s, t) == Len(s) <= Len(t) /\ s = SubSeq(t, 1, Len(s))

LastRowBottom(call) ==
    StartY(call.routine)
    + ((Len(call.categories) - 1) \div call.blocks_per_row) * (call.block_height + spacing_y)
    + call.block_height

\* C20 (as claimed): for every non-empty category list the routine draws the
\* strip: 7 boxes at x = 0.5 + i * 1.3 with one y, which is the bottom edge of
\* the last block row plus 0.7 whatever the list holds, and below every block.
C20_StripBelowLastRowForEveryList ==
    (Laid /\ lastCall.categories # <<>>) =>
        /\ lastCall.error = "none"
        /\ Len(lastCall.slide.boxes) = 7
        /\ \A i \in 1..7 :
              /\ lastCall.slide.boxes[i].x_pos = 50 + (i - 1) * (125 + 5)
              /\ lastCall.slide.boxes[i].y_pos = LastRowBottom(lastCall) + 70
        /\ \A i \in 1..Len(lastCall.slide.blocks) :
              lastCall.slide.blocks[i].y_pos + lastCall.slide.blocks[i].height
                  < lastCall.slide.boxes[1].y_pos

\* C20 witness: the agent was given a list of one unknown id, divided by its
\* zero blocks per row and drew no strip.
C20_Witness ==
    /\ lastCall.routine = "agent.create_building_block_slide"
    /\ lastCall.categories = <<UnknownCategory>>
    /\ lastCall.error = "ZeroDivisionError"
    /\ lastCall.slide.boxes = <<>>
    /\ lastCall.returned = "Error creating building block slide"

\* rectangle a lies left of rectangle b by at least spacing_x, or above it by
\* at least spacing_y
ApartFrom(a, b) ==
    \/ a.x_pos + a.width + spacing_x <= b.x_pos
    \/ a.y_pos + a.height + spacing_y <= b.y_pos

\* C27: on the slide of every layout routine called on a list of catalog
\* categories, any two blocks are in different cells and their rectangles are
\* at least spacing_x apart horizontally or spacing_y apart vertically, so no
\* two blocks overlap.
C27_NoTwoBlocksOverlap ==
    (Laid /\ AllInCatalog(lastCall)) =>
        \A i, j \in DOMAIN lastCall.slide.blocks :
            i < j =>
                LET a == lastCall.slide.blocks[i]
                    b == lastCall.slide.blocks[j]
                IN  /\ <<a.x_pos, a.y_pos>> # <<b.x_pos, b.y_pos>>
                    /\ ApartFrom(a, b) \/ ApartFrom(b, a)

\* C27 witness: the agent's routine drew seven catalog categories in its
\* smallest tier, in three rows.
C27_Witness ==
    /\ lastCall.routine = "agent.create_building_block_slide"
    /\ AllInCatalog(lastCall)
    /\ Len(lastCall.slide.blocks) = 7
    /\ lastCall.block_width = 220
    /\ Cardinality(RowsOf(lastCall)) = 3
    /\ Cardinality(Positions(lastCall)) = 7

-----------------------------------------------------------------------------
(* Properties of the generation calls *)

\* a generation call has returned
Generated == generation.generator # "none"

\* C2 (as claimed): every layout routine a generation call runs completes
\* without an error, whatever the category list, the empty one included, and
\* the call returns a success status whenever its file can be written.
C2_LayoutTotalGenerationSucceeds ==
    Generated =>
        /\ \A i \in 1..Len(generation.errors) : generation.errors[i] = "none"
        /\ generation.writable => generation.returned = "Successfully created"

\* C2 witness: the unified generator was asked for a string without a keyword,
\* classified it as the empty list, and returned an error status.
C2_Witness ==
    /\ generation.generator = "unified"
    /\ generation.requirements = "hello"
    /\ generation.categories = <<>>
    /\ generation.errors = <<"ZeroDivisionError">>
    /\ generation.returned = "Error creating presentation"
    /\ generation.saved = ""

\* C17 (as claimed): whenever the classifier returned at least one category
\* and the file can be written, the direct generator's call returns the
\* success status and writes one file of exactly two slides, the conceptual
\* slide first and the Azure-specific slide second.
C17_DirectWritesTwoSlides ==
    ( /\ generation.generator = "direct"
      /\ generation.categories # <<>>
      /\ generation.writable )
    => /\ generation.returned = "Successfully created"
       /\ generation.saved \in DOMAIN files
       /\ Len(files[generation.saved]) = 2
       /\ files[generation.saved][1].title = "Conceptual Architecture Building Blocks"
       /\ files[generation.saved][2].title = "Azure Solution Architecture Building Blocks"

\* C17 witness: the direct generator classified "web portal with a database"
\* as web_application, its conceptual routine returned, its Azure routine
\* raised NameError, and the call returned the error status and wrote no file.
C17_Witness ==
    /\ generation.generator = "direct"
    /\ generation.requirements = "web portal with a database"
    /\ generation.categories = <<"web_application">>
    /\ generation.writable
    /\ generation.errors = <<"none", "NameError">>
    /\ generation.returned = "Error creating slide"
    /\ generation.saved = ""
    /\ DOMAIN files = {}

\* height y is below the bottom edge of every box of the cross-cutting strip
BelowStrip(slide, y) ==
    \A i \in DOMAIN slide.boxes : y > slide.boxes[i].y_pos + slide.boxes[i].height

\* the titles of the slides of a presentation, in order
Titles(slides) == [i \in DOMAIN slides |-> slides[i].title]

\* C22: when the unified generator is given a string with at least one
\* category, a slide_type of "conceptual", "azure" or "both" and a writable
\* directory, the file it writes holds the conceptual slide alone, the
\* Azure-specific slide alone, or the conceptual slide followed by the
\* Azure-specific one; each slide has its cross-cutting strip and exactly one
\* requirements text box, whose top is below the bottom of the strip.
C22_UnifiedSlideCountAndRequirementsBox ==
    ( /\ generation.generator = "unified"
      /\ generation.categories # <<>>
      /\ generation.writable
      /\ generation.slide_type \in {"conceptual", "azure", "both"} )
    => /\ generation.returned = "Successfully created"
       /\ generation.saved \in DOMAIN files
       /\ Titles(files[generation.saved]) =
              ( CASE generation.slide_type = "conceptual" ->
                       <<"Conceptual Architecture Building Blocks">>
                  [] generation.slide_type = "azure" ->
                       <<"Azure Solution Architecture Building Blocks">>
                  [] generation.slide_type = "both" ->
                       <<"Conceptual Architecture Building Blocks",
                         "Azure Solution Architecture Building Blocks">> )
       /\ \A i \in DOMAIN files[generation.saved] :
              /\ files[generation.saved][i].boxes # <<>>
              /\ Len(files[generation.saved][i].texts) = 1
              /\ BelowStrip(files[generation.saved][i],
                            files[generation.saved][i].texts[1])

\* C22 witness: the unified generator was asked for both slides of "web
\* portal with a database" and wrote a file of two slides, each with its
\* requirements text box.
C22_Witness ==
    /\ generation.generator = "unified"
    /\ generation.requirements = "web portal with a database"
    /\ generation.slide_type = "both"
    /\ generation.saved = "deck.pptx"
    /\ "deck.pptx" \in DOMAIN files
    /\ Len(files["deck.pptx"]) = 2
    /\ \A i \in 1..2 : Len(files["deck.pptx"][i].texts) = 1

\* the number of blocks of a slide whose top is at height y
SlideBlocksAt(slide, y) ==
    Cardinality({i \in DOMAIN slide.blocks : slide.blocks[i].y_pos = y})

\* a slide of 4 blocks, 3 in the first row and 1 in the second
FourBlocksThreeAndOne(slide) ==
    /\ Len(slide.blocks) = 4
    /\ SlideBlocksAt(slide, direct_start_y) = 3
    /\ SlideBlocksAt(slide, direct_start_y + DirectTier(4).block_height + spacing_y) = 1

\* the four layer categories in the classifiers' order
FourLayers == <<"web_application", "ai_analytics", "data_platform", "integration">>

\* C25 (as claimed): on the built-in four-layer test string the direct and the
\* unified generator classify exactly web_application, ai_analytics,
\* data_platform, integration, and every slide of the generation run has 4
\* blocks, 3 in the first row and 1 in the second.
C25_FourLayerStringFourBlocks ==
    ( /\ Generated
      /\ generation.requirements = TestRequirements
      /\ generation.slide_type \in {"conceptual", "azure", "both"} )
    => /\ generation.categories = FourLayers
       /\ generation.slides # <<>>
       /\ \A i \in DOMAIN generation.slides :
             FourBlocksThreeAndOne(generation.slides[i])

\* C25 witness: the direct generator ran on the test string; its conceptual
\* slide has the 4 blocks in rows of 3 and 1, its Azure-specific routine
\* raised NameError after the first block, and no file was written.
C25_Witness ==
    /\ generation.generator = "direct"
    /\ generation.requirements = TestRequirements
    /\ generation.categories = FourLayers
    /\ generation.errors = <<"none", "NameError">>
    /\ FourBlocksThreeAndOne(generation.slides[1])
    /\ Len(generation.slides[2].blocks) = 1
    /\ generation.saved = ""

-----------------------------------------------------------------------------
(* Properties of the sessions *)

\* the last tool operation was a save_presentation that wrote its file
SavedNow ==
    /\ tool.operation = "save_presentation"
    /\ tool.returned = "Successfully saved presentation"

\* C11 (as claimed): the presentation a request saves holds only the slides
\* created during that request, none created for an earlier request of the
\* same agent instance.
C11_SavedFileHoldsOnlyThisRequestsSlides ==
    SavedNow => tool.written = SubSeq(presentation, process.first + 1, SlideCount)

\* C11 witness: the second request of one agent created a slide and saved a
\* file of two slides, the first of them created for the first request.
C11_Witness ==
    /\ SavedNow
    /\ process.served = 2
    /\ process.first = 1
    /\ Len(tool.written) = 2
    /\ tool.written[1] = presentation[1]

\* the strings by which the tool operations report a failure
ToolErrorStrings ==
    {"Error creating building block slide", "Error saving presentation"}

\* C13: every tool operation of BuildingBlockAgent returns a string and lets
\* no exception escape; a failure inside it comes back as its error string.
C13_ToolsReturnStringsAndFlattenFailures ==
    tool.operation # "none" =>
        /\ tool.raised = "none"
        /\ tool.returned # ""
        /\ tool.failure # "none" <=> tool.returned \in ToolErrorStrings

\* C13 witness: create_building_block_slide failed inside (the list held no
\* catalog category) and returned its error string.
C13_Witness ==
    /\ tool.operation = "create_building_block_slide"
    /\ tool.failure = "ZeroDivisionError"
    /\ tool.raised = "none"
    /\ tool.returned = "Error creating building block slide"

\* the remote delegate is handling a request of the program
Handling == process.pc \in {"serving", "serving all"}

\* C12 (as claimed): in every interactive loop the handling of a request,
\* failed or not, ends with a report and with the loop at its prompt again;
\* the process does not terminate.
C12_LoopReturnsToPromptAfterFailure ==
    [][(process.program \in LoopPrograms /\ Handling /\ process'.pc # process.pc)
          => (process'.pc = "prompt" /\ process'.report \in {"completed", "error"})]_vars

\* C12 witness: main_menu ran one example with a token, its remote call
\* raised, and the process ended with the traceback.
C12_Witness ==
    /\ process.program \in MenuPrograms
    /\ process.input \in SingleExamples
    /\ process.remote = 1
    /\ process.pc = "crashed"
    /\ process.report = "traceback"

\* C14: without a token no program starts a remote call: the agent programs
\* and the examples report the missing token and return, generate with method
\* "ai" or "auto" returns what the unified direct generation made, and
\* create_slide with use_ai returns what the direct generation made without
\* trying the AI path.
C14_NoTokenNoRemoteCall ==
    ~process.token =>
        /\ process.remote = 0
        /\ ~Handling
        /\ ( /\ process.program \in {"building_block_agent.main", "powerpoint_agent.main"}
             /\ process.pc # "start" )
           => (process.pc = "returned" /\ process.report = "missing token")
        /\ ( /\ process.program = "quick_generator.main"
             /\ process.pc # "start"
             /\ process.input # "" )
           => (process.pc = "returned" /\ process.report = "missing token")
        /\ ( /\ process.program = "examples.__main__"
             /\ process.pc # "start" )
           => (process.pc = "exited" /\ process.report = "missing token")
        /\ ( /\ process.program = "examples.main_menu"
             /\ process.input \in SingleExamples \cup {"5", "6"} )
           => (process.pc = "prompt" /\ process.report = "missing token")
        /\ ( /\ process.program = "UnifiedPowerPointGenerator.generate"
             /\ process.input \in {"ai", "auto"} )
           => /\ process.pc = "returned"
              /\ process.report = "result"
              /\ generation.generator = "unified"
              /\ generation.requirements = requirements
        /\ ( /\ process.program = "FixedBuildingBlockGenerator.create_slide"
             /\ process.input = "use_ai" )
           => /\ process.pc = "returned"
              /\ process.report = "result"
              /\ generation.generator = "direct"
              /\ generation.requirements = requirements

\* C14 witness: generate was called with method "auto" and no token, and
\* returned the status of a unified direct generation.
C14_Witness ==
    /\ ~process.token
    /\ process.program = "UnifiedPowerPointGenerator.generate"
    /\ process.input = "auto"
    /\ process.pc = "returned"
    /\ generation.generator = "unified"
    /\ process.remote = 0

\* C15: create_slide with use_ai and a token never raises; whether or not a
\* step of its AI path raised, it returns the status of the direct generation
\* for the same requirements, and fixed_generator.main never reaches its
\* except clause through it.
C15_AiFailureFallsBackToDirect ==
    /\ ( /\ process.program = "FixedBuildingBlockGenerator.create_slide"
         /\ process.input = "use_ai"
         /\ process.token )
       => /\ process.pc = "returned"
          /\ process.report \in {"result", "ai failed"}
          /\ generation # NoGeneration
          /\ generation = DirectGeneration(requirements, "", generation.writable,
                                           DirectCategories(requirements))
    /\ process.program = "fixed_generator.main" => process.report # "error"

\* C15 witness: with a token, a step of the AI path raised, and create_slide
\* returned the status of the direct generation.
C15_Witness ==
    /\ process.program = "FixedBuildingBlockGenerator.create_slide"
    /\ process.token
    /\ process.input = "use_ai"
    /\ process.report = "ai failed"
    /\ process.pc = "returned"
    /\ generation.generator = "direct"
    /\ generation.requirements = requirements

\* C16: every file written has a name ending in ".pptx"; a generation call
\* given no name wrote the default name, given a name ending in ".pptx" wrote
\* that name, given any other name wrote it with ".pptx" appended once, and
\* normalising the written name again changes nothing; save_presentation of
\* the agent does the same for the name it is given.
C16_WrittenNameEndsWithPptxOnce ==
    /\ \A name \in DOMAIN files : EndsWith(name, ".pptx")
    /\ (Generated /\ generation.saved # "") =>
          /\ generation.saved \in DOMAIN files
          /\ generation.filename = "" =>
                generation.saved = "Building_Blocks_Architecture.pptx"
          /\ EndsWith(generation.filename, ".pptx") =>
                generation.saved = generation.filename
          /\ (generation.filename # "" /\ ~EndsWith(generation.filename, ".pptx")) =>
                generation.saved = generation.filename \o ".pptx"
          /\ FileName(generation.saved) = generation.saved
    /\ SavedNow =>
          /\ EndsWith(tool.arguments[1], ".pptx") => tool.arguments[1] \in DOMAIN files
          /\ ~EndsWith(tool.arguments[1], ".pptx") =>
                tool.arguments[1] \o ".pptx" \in DOMAIN files
          /\ AgentFileName(AgentFileName(tool.arguments[1])) = AgentFileName(tool.arguments[1])

\* C16 witness: the unified generator was given the name "deck.pptx" and
\* wrote the file "deck.pptx".
C16_Witness ==
    /\ generation.generator = "unified"
    /\ generation.filename = "deck.pptx"
    /\ generation.saved = "deck.pptx"
    /\ DOMAIN files = {"deck.pptx"}

\* generate has handled its request
GenerateCalled ==
    /\ process.program = "UnifiedPowerPointGenerator.generate"
    /\ process.pc # "start"

\* generate ran the unified direct generation on the request and returned
RanDirect ==
    /\ process.pc = "returned"
    /\ process.report = "result"
    /\ process.remote = 0
    /\ generation.generator = "unified"
    /\ generation.requirements = requirements

\* generate entered create_ai_presentation and nothing was generated locally
RanRemotePath ==
    /\ generation = NoGeneration
    /\ \/ process.pc = "returned" /\ process.report = "agent not initialised"
          /\ process.remote = 0
       \/ process.pc \in {"serving", "returned", "raised"} /\ process.remote = 1

\* C23: generate routes by its method argument: "direct" runs the direct
\* generation; "ai" and "auto" enter the remote path exactly when the AI
\* framework was imported and a token is set, and run the direct generation
\* otherwise; any other method returns the unknown-method string, and then no
\* presentation was generated and no file written.
C23_GenerateRoutesByMethod ==
    GenerateCalled =>
        CASE process.input = "direct" -> RanDirect
          [] process.input \in {"ai", "auto"} ->
                IF process.framework /\ process.token THEN RanRemotePath ELSE RanDirect
          [] OTHER ->
                /\ process.pc = "returned"
                /\ process.report = "unknown method"
                /\ process.remote = 0
                /\ generation = NoGeneration
                /\ presentation = NoAttribute
                /\ DOMAIN files = {}

\* C23 witness: generate was called with the method "fast" and returned the
\* unknown-method string, leaving no presentation and no file.
C23_Witness ==
    /\ GenerateCalled
    /\ process.input = "fast"
    /\ process.report = "unknown method"
    /\ process.pc = "returned"
    /\ generation = NoGeneration
    /\ DOMAIN files = {}

-----------------------------------------------------------------------------
(* Properties of the tool runs *)

\* the save operations and the slide-creating operations of the three classes
SaveOperations ==
    {"save_presentation", "PowerPointAgent.save_presentation", "ai_save_presentation"}
CreatingOperations ==
    {"create_building_block_slide", "PowerPointAgent.create_powerpoint_slide",
     "PowerPointAgent.create_architecture_diagram", "ai_create_powerpoint_slide",
     "ai_create_architecture_diagram"}

\* a step in which a save operation is called
SaveStep ==
    /\ tool' # tool
    /\ tool'.operation \in SaveOperations

\* C24: a new agent has no presentation, and only a slide-creating operation
\* gives it one, adding one slide per call. A save operation called while
\* there is none returns "No presentation to save. Create slides first.",
\* writes no file and leaves the agent without a presentation; called after a
\* slide-creating call it writes the presentation under the name with
\* ".pptx" and reports the number of slides the presentation holds (or, when
\* the file cannot be written, its error string and no file).
C24_SaveNeedsASlideCreatingCall ==
    /\ presentation = NoAttribute
    /\ [][ /\ presentation' # presentation =>
                /\ tool'.operation \in CreatingOperations
                /\ presentation' # NoAttribute
                /\ Len(presentation') = SlideCount + 1
           /\ SaveStep =>
                IF presentation = NoAttribute
                THEN /\ tool'.returned = "No presentation to save. Create slides first."
                     /\ files' = files
                     /\ presentation' = NoAttribute
                ELSE \/ /\ tool'.returned = "Successfully saved presentation"
                        /\ AgentFileName(tool'.arguments[1]) \in DOMAIN files'
                        /\ files'[AgentFileName(tool'.arguments[1])] = presentation
                        /\ tool'.slide_count = Len(presentation)
                        /\ presentation' = presentation
                     \/ /\ tool'.returned = "Error saving presentation"
                        /\ tool'.failure = "OSError"
                        /\ files' = files
                        /\ presentation' = presentation
         ]_vars

\* C24 witness: ai_save_presentation, called after one slide-creating call,
\* wrote a file of that one slide and reported one slide.
C24_Witness ==
    /\ tool.operation = "ai_save_presentation"
    /\ tool.returned = "Successfully saved presentation"
    /\ tool.slide_count = 1
    /\ presentation # NoAttribute
    /\ Len(presentation) = 1
    /\ "deck.pptx" \in DOMAIN files
    /\ files["deck.pptx"] = presentation

\* a slide that holds its title and nothing else
TitleOnly(title) == Slide(title, <<>>, <<>>, <<>>, <<>>)

\* the last tool call was a create_building_block_slide of the agent on a
\* list without a catalog category
AgentCallWithoutCatalogCategory(call) ==
    /\ call.operation = "create_building_block_slide"
    /\ Range(call.arguments[3]) \cap Range(AgentCatalog) = {}

\* the last tool call was an ai_create_powerpoint_slide of type
\* "building_block" on content without a keyword
AiCallWithoutKeyword(call) ==
    /\ call.operation = "ai_create_powerpoint_slide"
    /\ call.arguments[3] = "building_block"
    /\ UnifiedCategories(call.arguments[2]) = <<>>

\* a step in which a tool operation is called
ToolStep == tool' # tool \/ presentation' # presentation

\* C26: create_building_block_slide of the agent on a list without a catalog
\* category returns its error string, and the presentation has one slide
\* more, holding only the title; so does ai_create_powerpoint_slide of type
\* "building_block" on content without a keyword, with the Azure title. A
\* save that follows and succeeds writes the presentation with that slide last.
C26_FailedSlideStaysInPresentation ==
    [][ /\ (ToolStep /\ AgentCallWithoutCatalogCategory(tool')) =>
              /\ tool'.returned = "Error creating building block slide"
              /\ presentation' # NoAttribute
              /\ Held \o <<TitleOnly(tool'.arguments[1])>> = presentation'
        /\ (ToolStep /\ AiCallWithoutKeyword(tool')) =>
              /\ tool'.returned = "Error creating slide"
              /\ presentation' # NoAttribute
              /\ Held \o <<TitleOnly("Azure Solution Architecture Building Blocks")>>
                    = presentation'
        /\ ( /\ SaveStep
             /\ AgentCallWithoutCatalogCategory(tool) \/ AiCallWithoutKeyword(tool)
             /\ tool'.returned = "Successfully saved presentation" ) =>
              /\ files'[AgentFileName(tool'.arguments[1])] = presentation
              /\ presentation[Len(presentation)].blocks = <<>>
              /\ presentation[Len(presentation)].boxes = <<>>
      ]_vars

\* C26 witness: ai_create_powerpoint_slide of type "building_block" was called
\* on "hello" as the first tool call and returned its error string, and the
\* presentation holds the title-only slide.
C26_Witness ==
    /\ AiCallWithoutKeyword(tool)
    /\ tool.arguments[2] = "hello"
    /\ tool.failure = "ZeroDivisionError"
    /\ tool.returned = "Error creating slide"
    /\ presentation = <<TitleOnly("Azure Solution Architecture Building Blocks")>>

====
